---- MODULE Spec2Model ----
(***************************************************************************)
(* R-Type server: the Gateway's stream protocol (GWPcol).                  *)
(*                                                                         *)
(* The gateway keeps, per stream handle, a receive buffer, a queue of      *)
(* outbound frames and a parse-error counter, and globally the Game Server *)
(* registry, the key->handle map, the occupancy cache, the game->GS        *)
(* routing table and the pending-create table.  Frames are byte sequences; *)
(* every handler is translated from its C++ body and works on byte         *)
(* offsets exactly as the code does (offsets are 0-based as in the code).  *)
(***************************************************************************)
EXTENDS Integers, Sequences, FiniteSets, TLC

(***************************************************************************)
(* Bounds of the model.                                                    *)
(***************************************************************************)
MaxFrames == 4

MaxRelayFrames == 5

MaxRouteFrames == 5

\* the Game Server's clock runs from StartTime to MaxTime (seconds) and the
\* server makes at most MaxPasses parse passes
StartTime == 10

MaxTime == 16

MaxPasses == 3

\* the octets of a snapshot that needs three fragments
LargeSnapshot == 3000

\* the steps followed on the Game Server's stream to the gateway
MaxTcpSteps == 4

\* the frames that bring the gateway to the tables its parsing loop is run on
MaxParseFrames == 3

(***************************************************************************)
(* Program constants.                                                      *)
(***************************************************************************)
HEADER_MAGIC == 16983

MINIMUM_VERSION == 1

MAXIMUM_VERSION == 1

MAX_PARSE_ERRORS == 3

MAX_BUFFER_SIZE == 65536

SIZE_MAX == 2147483647

CMD_JOIN == 1

CMD_JOIN_KO == 2

CMD_CREATE == 3

CMD_CREATE_KO == 4

CMD_GAME_END == 5

CMD_GS == 20

CMD_GS_OK == 21

CMD_GS_KO == 22

CMD_OCCUPANCY == 23

CMD_GID == 24

RTYPE == 1

(***************************************************************************)
(* The universe of the model: stream handles, GS keys, game ids.           *)
(* Handle 0 is the "no handle" value of getGSHandle.                       *)
(***************************************************************************)
Handles == 1..4

GSHandles == {1, 2}

ClientHandles == {3, 4}

IP_A == <<0, 0, 0, 0, 0, 0, 0, 0, 0, 0, 255, 255, 127, 0, 0, 1>>

IP_B == <<0, 0, 0, 0, 0, 0, 0, 0, 0, 0, 255, 255, 10, 0, 0, 2>>

KeyA == <<IP_A, 8080>>

KeyB == <<IP_B, 8081>>

Keys == {KeyA, KeyB}

NoKey == <<>>

GameIds == {66, 258}

GameTypes == {RTYPE}

OccValues == {0, 2}

\* what a read past the end of the buffer may yield (undefined behaviour)
OobBytes == {0, 255}

\* where the registry container may place a new key in its iteration order
RegPositions == {0, 1}

Inputs == [oob : OobBytes, pos : RegPositions]

\* the inputs of a pass in which no handler reads past a buffer: the byte
\* such a read would yield is immaterial there (lemma OobImmaterial)
WholeFrameInputs == {nd \in Inputs : nd.oob = 0}

(***************************************************************************)
(* Byte helpers.                                                           *)
(***************************************************************************)
\* data[i] of the code (0-based); a read outside the buffer yields oob
At(data, i, oob) == IF i >= 0 /\ i < Len(data) THEN data[i + 1] ELSE oob

\* std::vector(data + from, data + from + n)
Slice(data, from, n, oob) == [i \in 1..n |-> At(data, from + i - 1, oob)]

U16Bytes(v) == <<(v \div 256) % 256, v % 256>>

U32Bytes(v) == <<(v \div 16777216) % 256, (v \div 65536) % 256, (v \div 256) % 256, v % 256>>

Put(f, k, v) == [x \in (DOMAIN f) \cup {k} |-> IF x = k THEN v ELSE f[x]]

Del(f, k) == [x \in (DOMAIN f) \ {k} |-> f[x]]

Range(s) == {s[i] : i \in DOMAIN s}

InsertAt(s, pos, k) ==
    LET p == IF pos > Len(s) THEN Len(s) ELSE pos
    IN  SubSeq(s, 1, p) \o <<k>> \o SubSeq(s, p + 1, Len(s))

(***************************************************************************)
(* Gateway::PacketParser                                                   *)
(***************************************************************************)
\* getNextVal<uint16_t> / <uint8_t>: big-endian read, the caller advances
getNextVal16(data, offset) == At(data, offset, 0) * 256 + At(data, offset + 1, 0)

getNextVal8(data, offset) == At(data, offset, 0)

\* getHeader: leaves offset on the CMD byte and returns it
getHeader(data, offset) ==
    IF offset + 5 > Len(data)
    THEN [threw |-> TRUE, offset |-> offset, cmd |-> 0]
    ELSE IF getNextVal16(data, offset) # HEADER_MAGIC
    THEN [threw |-> TRUE, offset |-> offset + 2, cmd |-> 0]
    ELSE IF getNextVal8(data, offset + 2) < MINIMUM_VERSION
            \/ getNextVal8(data, offset + 2) > MAXIMUM_VERSION
    THEN [threw |-> TRUE, offset |-> offset + 3, cmd |-> 0]
    ELSE IF offset + 4 >= Len(data)
    THEN [threw |-> TRUE, offset |-> offset + 4, cmd |-> 0]
    ELSE [threw |-> FALSE, offset |-> offset + 4, cmd |-> At(data, offset + 4, 0)]

extractGameId(data, p, oob) ==
    At(data, p, oob) * 16777216 + At(data, p + 1, oob) * 65536
        + At(data, p + 2, oob) * 256 + At(data, p + 3, oob)

parseGSKey(data, offset, oob) ==
    <<Slice(data, offset, 16, oob), At(data, offset + 16, oob) * 256 + At(data, offset + 17, oob)>>

parseOccupancy(data, offset, oob) == At(data, offset, oob)

RECURSIVE parseGIDs(_, _, _)
parseGIDs(data, pos, bufsize) ==
    IF pos + 4 <= bufsize
    THEN <<extractGameId(data, pos, 0)>> \o parseGIDs(data, pos + 4, bufsize)
    ELSE <<>>

buildHeader(cmd, flags) == <<66, 87, 1, flags, cmd>>

buildCreateMsg(gametype) == buildHeader(CMD_CREATE, 0) \o <<gametype>>

buildJoinMsgForClient(data, offset, oob) ==
    buildHeader(CMD_JOIN, 0) \o Slice(data, offset, 4 + 16 + 2, oob)

buildJoinMsgForGS(ip, port, id) ==
    buildHeader(CMD_JOIN, 0) \o ip \o <<(port \div 256) % 256, port % 256>> \o U32Bytes(id)

buildSimpleResponse(cmd) == buildHeader(cmd, 0)

(***************************************************************************)
(* The gateway's tables as one value G, so that each handler is an         *)
(* operator from tables to tables.  Fields carry the member names of the   *)
(* Gateway class:                                                          *)
(*   recv_spans, send_spans, parseErrors : per handle                      *)
(*   gs_registry        : the registered keys, in the container's          *)
(*                        iteration order (the mapped value is always 1)   *)
(*   gs_addr_to_handle  : key -> handle                                    *)
(*   occupancy_cache    : key -> last reported occupancy                   *)
(*   game_to_gs         : game id -> key                                   *)
(*   pending_creates    : GS handle -> <<client handle, game type>>        *)
(*   closed             : handles whose connection the gateway closed      *)
(* A handler returns [G, offset, threw]: threw stands for the exception.   *)
(***************************************************************************)
Ok(G, offset) == [G |-> G, offset |-> offset, threw |-> FALSE]

Throw(G, offset) == [G |-> G, offset |-> offset, threw |-> TRUE]

\* _send_spans[handle].push_back(msg); setPolloutForHandle(handle)
Enqueue(G, handle, msg) == [G EXCEPT !.send_spans[handle] = Append(@, msg)]

RECURSIVE FirstKeyOf(_, _, _)
FirstKeyOf(G, handle, i) ==
    IF i > Len(G.gs_registry) THEN NoKey
    ELSE IF G.gs_addr_to_handle[G.gs_registry[i]] = handle THEN G.gs_registry[i]
    ELSE FirstKeyOf(G, handle, i + 1)

\* the first key of _gs_addr_to_handle, in iteration order, bound to handle
findGSKeyByHandle(G, handle) == FirstKeyOf(G, handle, 1)

OccupancyOf(G, key) ==
    IF key \in DOMAIN G.occupancy_cache THEN G.occupancy_cache[key] ELSE 0

RECURSIVE LeastFrom(_, _, _, _)
LeastFrom(G, i, min_gs, min_occupancy) ==
    IF i > Len(G.gs_registry) THEN min_gs
    ELSE LET occ == OccupancyOf(G, G.gs_registry[i])
         IN  IF occ < min_occupancy
             THEN LeastFrom(G, i + 1, G.gs_registry[i], occ)
             ELSE LeastFrom(G, i + 1, min_gs, min_occupancy)

RECURSIVE LeastFrom_LastTie(_, _, _, _)
LeastFrom_LastTie(G, i, min_gs, min_occupancy) ==
    IF i > Len(G.gs_registry) THEN min_gs
    ELSE LET occ == OccupancyOf(G, G.gs_registry[i])
         IN  IF occ <= min_occupancy
             THEN LeastFrom_LastTie(G, i + 1, G.gs_registry[i], occ)
             ELSE LeastFrom_LastTie(G, i + 1, min_gs, min_occupancy)

\* Variant of findLeastOccupiedGS comparing with <= : among equally occupied
\* servers the last one in iteration order wins.
findLeastOccupiedGS_LastTie(G) == LeastFrom_LastTie(G, 1, NoKey, SIZE_MAX)

\* the first key in iteration order whose occupancy is strictly below all
\* earlier ones; NoKey when the registry is empty
findLeastOccupiedGS(G) == LeastFrom(G, 1, NoKey, SIZE_MAX)

getGSHandle(G, gs_key) ==
    IF gs_key \in DOMAIN G.gs_addr_to_handle THEN G.gs_addr_to_handle[gs_key] ELSE 0

\* Variant of handleCreate that keeps an existing pending-create entry of
\* the picked GS handle instead of replacing it.
handleCreate_KeepPending(G, handle, data, offset, nd) ==
    IF offset + 2 > Len(data) THEN Throw(G, offset)
    ELSE LET gametype == At(data, offset + 1, nd.oob)
             min_gs == findLeastOccupiedGS(G)
             gs_handle == getGSHandle(G, min_gs)
         IN  IF G.gs_registry = <<>> \/ min_gs = NoKey \/ gs_handle = 0
             THEN Ok(Enqueue(G, handle, buildSimpleResponse(CMD_CREATE_KO)), offset + 2)
             ELSE Ok([Enqueue(G, gs_handle, buildCreateMsg(gametype))
                        EXCEPT !.pending_creates =
                            IF gs_handle \in DOMAIN @ THEN @
                            ELSE Put(@, gs_handle, <<handle, gametype>>)],
                     offset + 2)

handleCreate(G, handle, data, offset, nd) ==
    IF offset + 2 > Len(data) THEN Throw(G, offset)
    ELSE LET gametype == At(data, offset + 1, nd.oob)
             min_gs == findLeastOccupiedGS(G)
             gs_handle == getGSHandle(G, min_gs)
         IN  IF G.gs_registry = <<>> \/ min_gs = NoKey \/ gs_handle = 0
             THEN Ok(Enqueue(G, handle, buildSimpleResponse(CMD_CREATE_KO)), offset + 2)
             ELSE Ok([Enqueue(G, gs_handle, buildCreateMsg(gametype))
                        EXCEPT !.pending_creates = Put(@, gs_handle, <<handle, gametype>>)],
                     offset + 2)

\* Variant of handleJoin that relays the reply without erasing the
\* pending-create entry.
handleJoin_KeepPending(G, handle, data, offset, nd) ==
    IF offset + 1 + 4 > Len(data) THEN Throw(G, offset)
    ELSE LET id == extractGameId(data, offset + 1, nd.oob)
         IN  IF G.gs_registry = <<>>
             THEN Ok(Enqueue(G, handle, buildSimpleResponse(CMD_JOIN_KO)), offset + 1 + 4)
             ELSE IF handle \in DOMAIN G.pending_creates
             THEN LET client_handle == G.pending_creates[handle][1]
                      join_msg == buildJoinMsgForClient(data, offset + 1, nd.oob)
                      game_id == extractGameId(join_msg, 5, nd.oob)
                      gs_key == findGSKeyByHandle(G, handle)
                      G1 == IF gs_key # NoKey
                            THEN [G EXCEPT !.game_to_gs = Put(@, game_id, gs_key)]
                            ELSE G
                  IN  Ok(Enqueue(G1, client_handle, join_msg), offset + 1 + 4)
             ELSE IF id \in DOMAIN G.game_to_gs
             THEN LET fst == G.game_to_gs[id][1]
                      snd == G.game_to_gs[id][2]
                  IN  Ok(Enqueue(G, handle, buildJoinMsgForGS(fst, snd, id)), offset + 1 + 4)
             ELSE Ok(Enqueue(G, handle, buildSimpleResponse(CMD_JOIN_KO)), offset + 1 + 4)

handleJoin(G, handle, data, offset, nd) ==
    IF offset + 1 + 4 > Len(data) THEN Throw(G, offset)
    ELSE LET id == extractGameId(data, offset + 1, nd.oob)
         IN  IF G.gs_registry = <<>>
             THEN Ok(Enqueue(G, handle, buildSimpleResponse(CMD_JOIN_KO)), offset + 1 + 4)
             ELSE IF handle \in DOMAIN G.pending_creates
             THEN LET client_handle == G.pending_creates[handle][1]
                      join_msg == buildJoinMsgForClient(data, offset + 1, nd.oob)
                      game_id == extractGameId(join_msg, 5, nd.oob)
                      gs_key == findGSKeyByHandle(G, handle)
                      G1 == IF gs_key # NoKey
                            THEN [G EXCEPT !.game_to_gs = Put(@, game_id, gs_key)]
                            ELSE G
                      G2 == Enqueue(G1, client_handle, join_msg)
                  IN  Ok([G2 EXCEPT !.pending_creates = Del(@, handle)], offset + 1 + 4)
             ELSE IF id \in DOMAIN G.game_to_gs
             THEN LET fst == G.game_to_gs[id][1]
                      snd == G.game_to_gs[id][2]
                  IN  Ok(Enqueue(G, handle, buildJoinMsgForGS(fst, snd, id)), offset + 1 + 4)
             ELSE Ok(Enqueue(G, handle, buildSimpleResponse(CMD_JOIN_KO)), offset + 1 + 4)

\* Variant of handleGSRegistration that rebinds the key to the sender on a
\* duplicate registration (the guard on already_registered dropped).
handleGSRegistration_Rebind(G, handle, data, offset, nd) ==
    IF offset + 1 + 16 + 2 > Len(data) THEN Throw(G, offset)
    ELSE LET key == parseGSKey(data, offset + 1, nd.oob)
             already_registered == key \in Range(G.gs_registry)
             G1 == IF already_registered
                   THEN [G EXCEPT !.gs_addr_to_handle = Put(@, key, handle)]
                   ELSE [G EXCEPT !.gs_registry = InsertAt(@, nd.pos, key),
                                  !.gs_addr_to_handle = Put(@, key, handle)]
             response_cmd == IF already_registered THEN CMD_GS_KO ELSE CMD_GS_OK
         IN  Ok(Enqueue(G1, handle, buildSimpleResponse(response_cmd)), offset + 1 + 16 + 2)

\* Variant of handleGSRegistration that accepts a repeated registration from
\* the handle the key is bound to and resets the key's occupancy.
handleGSRegistration_SameHandleOk(G, handle, data, offset, nd) ==
    IF offset + 1 + 16 + 2 > Len(data) THEN Throw(G, offset)
    ELSE LET key == parseGSKey(data, offset + 1, nd.oob)
             already_registered == key \in Range(G.gs_registry)
             same == already_registered /\ G.gs_addr_to_handle[key] = handle
             G1 == IF same THEN [G EXCEPT !.occupancy_cache = Put(@, key, 0)]
                   ELSE IF already_registered THEN G
                   ELSE [G EXCEPT !.gs_registry = InsertAt(@, nd.pos, key),
                                  !.gs_addr_to_handle = Put(@, key, handle)]
             response_cmd == IF already_registered /\ ~same THEN CMD_GS_KO ELSE CMD_GS_OK
         IN  Ok(Enqueue(G1, handle, buildSimpleResponse(response_cmd)), offset + 1 + 16 + 2)

handleGSRegistration(G, handle, data, offset, nd) ==
    IF offset + 1 + 16 + 2 > Len(data) THEN Throw(G, offset)
    ELSE LET key == parseGSKey(data, offset + 1, nd.oob)
             already_registered == key \in Range(G.gs_registry)
             G1 == IF already_registered THEN G
                   ELSE [G EXCEPT !.gs_registry = InsertAt(@, nd.pos, key),
                                  !.gs_addr_to_handle = Put(@, key, handle)]
             response_cmd == IF already_registered THEN CMD_GS_KO ELSE CMD_GS_OK
         IN  Ok(Enqueue(G1, handle, buildSimpleResponse(response_cmd)), offset + 1 + 16 + 2)

\* Variant of handleOccupancy without the check that the sender is bound to
\* a registered key: the count is recorded under whatever the lookup gave.
handleOccupancy_NoSenderCheck(G, handle, data, offset, nd) ==
    IF offset + 1 + 1 > Len(data) THEN Throw(G, offset)
    ELSE LET occ == parseOccupancy(data, offset + 1, nd.oob)
             gs_key == findGSKeyByHandle(G, handle)
         IN  Ok([G EXCEPT !.occupancy_cache = Put(@, gs_key, occ)], offset + 1 + 1)

handleOccupancy(G, handle, data, offset, nd) ==
    IF offset + 1 + 1 > Len(data) THEN Throw(G, offset)
    ELSE LET occ == parseOccupancy(data, offset + 1, nd.oob)
             gs_key == findGSKeyByHandle(G, handle)
         IN  IF gs_key = NoKey THEN Throw(G, offset)
             ELSE Ok([G EXCEPT !.occupancy_cache = Put(@, gs_key, occ)], offset + 1 + 1)

RECURSIVE RouteAll(_, _, _, _)
RouteAll(routes, gids, i, gs_key) ==
    IF i > Len(gids) THEN routes
    ELSE RouteAll(Put(routes, gids[i], gs_key), gids, i + 1, gs_key)

RECURSIVE RouteAll_KeepFirst(_, _, _, _)
RouteAll_KeepFirst(routes, gids, i, gs_key) ==
    IF i > Len(gids) THEN routes
    ELSE RouteAll_KeepFirst(IF gids[i] \in DOMAIN routes THEN routes
                            ELSE Put(routes, gids[i], gs_key),
                            gids, i + 1, gs_key)

\* Variant of handleGID that keeps the routing entry a game already has
\* (first announcer wins).
handleGID_KeepRoute(G, handle, data, offset, nd) ==
    IF offset + 1 + 1 + 4 > Len(data) THEN Throw(G, offset)
    ELSE LET len == At(data, offset + 1, nd.oob)
             expected_size == offset + 1 + 1 + (len * 4)
             gs_key == findGSKeyByHandle(G, handle)
             gid_start == offset + 2
             gids == parseGIDs(data, gid_start, gid_start + (len * 4))
         IN  IF expected_size > Len(data) THEN Throw(G, offset)
             ELSE IF gs_key = NoKey THEN Throw(G, offset)
             ELSE Ok([G EXCEPT !.game_to_gs = RouteAll_KeepFirst(@, gids, 1, gs_key)],
                     expected_size)

handleGID(G, handle, data, offset, nd) ==
    IF offset + 1 + 1 + 4 > Len(data) THEN Throw(G, offset)
    ELSE LET len == At(data, offset + 1, nd.oob)
             expected_size == offset + 1 + 1 + (len * 4)
             gs_key == findGSKeyByHandle(G, handle)
             gid_start == offset + 2
             gids == parseGIDs(data, gid_start, gid_start + (len * 4))
         IN  IF expected_size > Len(data) THEN Throw(G, offset)
             ELSE IF gs_key = NoKey THEN Throw(G, offset)
             ELSE Ok([G EXCEPT !.game_to_gs = RouteAll(@, gids, 1, gs_key)], expected_size)

\* Variant of handleGameEnd without the ownership check: a registered
\* sender removes the routing entry whoever hosts the game.
handleGameEnd_NoOwnerCheck(G, handle, data, offset, nd) ==
    IF offset + 1 + 4 > Len(data) THEN Throw(G, offset)
    ELSE LET game_id == extractGameId(data, offset + 1, nd.oob)
             gs_key == findGSKeyByHandle(G, handle)
         IN  IF gs_key = NoKey THEN Throw(G, offset)
             ELSE IF game_id \in DOMAIN G.game_to_gs
             THEN Ok([G EXCEPT !.game_to_gs = Del(@, game_id)], offset + 1 + 4)
             ELSE Ok(G, offset + 1 + 4)

handleGameEnd(G, handle, data, offset, nd) ==
    IF offset + 1 + 4 > Len(data) THEN Throw(G, offset)
    ELSE LET game_id == extractGameId(data, offset + 1, nd.oob)
             gs_key == findGSKeyByHandle(G, handle)
         IN  IF gs_key = NoKey THEN Throw(G, offset)
             ELSE IF game_id \in DOMAIN G.game_to_gs
             THEN IF G.game_to_gs[game_id] = gs_key
                  THEN Ok([G EXCEPT !.game_to_gs = Del(@, game_id)], offset + 1 + 4)
                  ELSE Throw(G, offset)
             ELSE Ok(G, offset + 1 + 4)

(***************************************************************************)
(* Gateway::_parsePackets.  The switch on the command byte follows the     *)
(* command numbers of GWPcol::CMD; any other command throws.              *)
(***************************************************************************)
Dispatch(cmd, G, handle, data, offset, nd) ==
    IF cmd = CMD_JOIN THEN handleJoin(G, handle, data, offset, nd)
    ELSE IF cmd = CMD_CREATE THEN handleCreate(G, handle, data, offset, nd)
    ELSE IF cmd = CMD_GAME_END THEN handleGameEnd(G, handle, data, offset, nd)
    ELSE IF cmd = CMD_GS THEN handleGSRegistration(G, handle, data, offset, nd)
    ELSE IF cmd = CMD_OCCUPANCY THEN handleOccupancy(G, handle, data, offset, nd)
    ELSE IF cmd = CMD_GID THEN handleGID(G, handle, data, offset, nd)
    ELSE Throw(G, offset)

\* what one handled frame did, as seen from outside the handler: its sender,
\* its command and, for a CREATE that was forwarded, the GS handle it went to
Event(pre, post, handle, cmd) ==
    LET grown == {x \in Handles : Len(post.send_spans[x]) = Len(pre.send_spans[x]) + 1
                                  /\ Len(post.send_spans[x][Len(post.send_spans[x])]) = 6}
    IN  [h |-> handle, cmd |-> cmd,
         fwd |-> IF cmd = CMD_CREATE /\ grown # {} THEN CHOOSE x \in grown : TRUE ELSE 0]

\* Variant of ParseBuffer in which any exception of a handler is fatal for
\* the peer at once instead of being counted against the quota.
RECURSIVE ParseBuffer_EvictAtOnce(_, _, _, _, _, _)
ParseBuffer_EvictAtOnce(G, handle, buf, offset, nd, log) ==
    IF ~(offset < Len(buf))
    THEN [G |-> G, offset |-> offset, fatal |-> FALSE, log |-> log]
    ELSE LET hd == getHeader(buf, offset)
         IN  CHOOSE out \in
                {IF r.threw
                 THEN [G |-> [r.G EXCEPT !.parseErrors[handle] = @ + 1],
                       offset |-> r.offset, fatal |-> TRUE, log |-> log]
                 ELSE ParseBuffer_EvictAtOnce(r.G, handle, buf, r.offset, nd,
                                  Append(log, Event(G, r.G, handle, hd.cmd)))
                 : r \in {IF hd.threw THEN Throw(G, hd.offset)
                          ELSE Dispatch(hd.cmd, G, handle, buf, hd.offset, nd)}} : TRUE

\* Variant of ParseBuffer whose quota test is > instead of >= : the peer is
\* still connected when its count reaches MAX_PARSE_ERRORS.
RECURSIVE ParseBuffer_QuotaPlusOne(_, _, _, _, _, _)
ParseBuffer_QuotaPlusOne(G, handle, buf, offset, nd, log) ==
    IF ~(offset < Len(buf))
    THEN [G |-> G, offset |-> offset, fatal |-> FALSE, log |-> log]
    ELSE LET hd == getHeader(buf, offset)
         IN  CHOOSE out \in
                {IF r.threw
                 THEN [G |-> [r.G EXCEPT !.parseErrors[handle] = @ + 1],
                       offset |-> r.offset,
                       fatal |-> r.G.parseErrors[handle] + 1 > MAX_PARSE_ERRORS,
                       log |-> log]
                 ELSE ParseBuffer_QuotaPlusOne(r.G, handle, buf, r.offset, nd,
                                  Append(log, Event(G, r.G, handle, hd.cmd)))
                 : r \in {IF hd.threw THEN Throw(G, hd.offset)
                          ELSE Dispatch(hd.cmd, G, handle, buf, hd.offset, nd)}} : TRUE

\* the while loop over one peer's buffer with its catch block:
\* fatal = the quota was reached and the exception leaves _parsePackets.
\* (The handler's result r is bound through a singleton set so that it is
\* computed once.)
RECURSIVE ParseBuffer(_, _, _, _, _, _)
ParseBuffer(G, handle, buf, offset, nd, log) ==
    IF ~(offset < Len(buf))
    THEN [G |-> G, offset |-> offset, fatal |-> FALSE, log |-> log]
    ELSE LET hd == getHeader(buf, offset)
         IN  CHOOSE out \in
                {IF r.threw
                 THEN [G |-> [r.G EXCEPT !.parseErrors[handle] = @ + 1],
                       offset |-> r.offset,
                       fatal |-> r.G.parseErrors[handle] + 1 >= MAX_PARSE_ERRORS,
                       log |-> log]
                 ELSE ParseBuffer(r.G, handle, buf, r.offset, nd,
                                  Append(log, Event(G, r.G, handle, hd.cmd)))
                 : r \in {IF hd.threw THEN Throw(G, hd.offset)
                          ELSE Dispatch(hd.cmd, G, handle, buf, hd.offset, nd)}} : TRUE

\* buf.erase(buf.begin(), buf.begin() + offset)
EraseParsed(G, handle, offset) ==
    IF offset > 0 /\ offset <= Len(G.recv_spans[handle])
    THEN [G EXCEPT !.recv_spans[handle] = SubSeq(@, offset + 1, Len(@))]
    ELSE G

\* the for loop over _recv_spans; thrown = the handle whose quota was reached
\* (0 if none): the exception ends the pass at once
RECURSIVE parsePackets(_, _, _, _)
parsePackets(G, handle, nd, log) ==
    IF handle \notin Handles THEN [G |-> G, thrown |-> 0, log |-> log]
    ELSE CHOOSE out \in
            {IF r.fatal THEN [G |-> r.G, thrown |-> handle, log |-> r.log]
             ELSE CHOOSE rest \in
                    {parsePackets(G2, handle + 1, nd, r.log)
                     : G2 \in {EraseParsed(r.G, handle, r.offset)}} : TRUE
             : r \in {ParseBuffer(G, handle, G.recv_spans[handle], 0, nd, log)}} : TRUE

(***************************************************************************)
(* Closing a peer: everything keyed by the handle is reclaimed and the GS  *)
(* records the handle owns are removed; the games they host stay routed.   *)
(***************************************************************************)
Evict(G, handle) ==
    LET owned == {k \in DOMAIN G.gs_addr_to_handle : G.gs_addr_to_handle[k] = handle}
    IN  [G EXCEPT !.recv_spans[handle] = <<>>,
                  !.send_spans[handle] = <<>>,
                  !.parseErrors[handle] = 0,
                  !.pending_creates = Del(@, handle),
                  !.gs_registry = SelectSeq(@, LAMBDA k : k \notin owned),
                  !.gs_addr_to_handle = [k \in (DOMAIN @) \ owned |-> @[k]],
                  !.occupancy_cache = [k \in (DOMAIN @) \ owned |-> @[k]],
                  !.closed = @ \cup {handle}]

\* Gateway::_recvPackets followed by Gateway::_parsePackets: the bytes read
\* from handle are appended to its buffer, then every buffer is parsed
Deliver(G, handle, bytes, nd) ==
    CHOOSE out \in
        {IF Len(G1.recv_spans[handle]) > MAX_BUFFER_SIZE
         THEN [G |-> Evict(G1, handle), log |-> <<>>]
         ELSE CHOOSE res \in
                {[G |-> IF r.thrown # 0 THEN Evict(r.G, r.thrown) ELSE r.G, log |-> r.log]
                 : r \in {parsePackets(G1, 1, nd, <<>>)}} : TRUE
         : G1 \in {[G EXCEPT !.recv_spans[handle] = @ \o bytes]}} : TRUE

(***************************************************************************)
(* The peers.  A client builds its frames as Protocol.hpp lays them out;   *)
(* a Game Server builds them with GameServerPacketParser.                  *)
(***************************************************************************)
ClientJoin(game_id) == <<66, 87, 1, 0, CMD_JOIN>> \o U32Bytes(game_id)

ClientCreate(gametype) == <<66, 87, 1, 0, CMD_CREATE>> \o <<gametype>>

buildGSRegistration(ip, port) == <<66, 87, 1, 0, CMD_GS>> \o ip \o U16Bytes(port)

buildOccupancy(occupancy) == <<66, 87, 1, 0, CMD_OCCUPANCY>> \o <<occupancy>>

buildJoinResponse(game_id, ip, port) ==
    <<66, 87, 1, 0, CMD_JOIN>> \o U32Bytes(game_id) \o ip \o U16Bytes(port)

buildGameEnd(game_id) == <<66, 87, 1, 0, CMD_GAME_END>> \o U32Bytes(game_id)

RECURSIVE IdBytes(_)
IdBytes(game_ids) ==
    IF game_ids = <<>> THEN <<>> ELSE U32Bytes(Head(game_ids)) \o IdBytes(Tail(game_ids))

buildGIDRegistration(game_ids) ==
    <<66, 87, 1, 0, CMD_GID>> \o <<Len(game_ids)>> \o IdBytes(game_ids)

\* the external endpoint a Game Server puts in its JOIN responses
ExternalEndpoint(handle) == IF handle = 1 THEN KeyA ELSE KeyB

(***************************************************************************)
(* The Game Server's datagram protocol (GSPcol).                           *)
(*                                                                         *)
(* A datagram is a record of the 21-byte header's fields plus the body as  *)
(* a sequence of octets; len is the size of the whole packet.  The offset  *)
(* the dispatcher hands to a handler is HEADER_SIZE, so data[offset + i]   *)
(* is body[i + 1].  Digests are symbolic: an octet of HMAC-SHA256 or of    *)
(* HKDF-SHA256 is the record of what it was computed from and its index,   *)
(* so two digests are equal exactly when key and data are.  Time is in     *)
(* whole seconds.                                                          *)
(***************************************************************************)
GSPCOL_MAGIC == 16980

UDP_VERSION == 1

HEADER_SIZE == 21

MAX_PACKET_SIZE == 1200

MAX_PAYLOAD_SIZE == MAX_PACKET_SIZE - HEADER_SIZE

MAX_AUTH_ATTEMPTS == 3

AUTH_TIMEOUT == 5

PING_INTERVAL == 1

DIGEST_SIZE == 32

AUTH_OK_KEY_SIZE == 8

GSCMD_INPUT == 1

GSCMD_CHAT == 3

GSCMD_PING == 4

GSCMD_PONG == 5

GSCMD_ACK == 6

GSCMD_JOIN == 7

GSCMD_CHALLENGE == 9

GSCMD_AUTH == 10

GSCMD_AUTH_OK == 11

GSCMD_RESYNC == 12

GSCMD_FRAGMENT == 13

GSCMD_SNAPSHOT == 2

FLAG_CONN == 1

FLAG_RELIABLE == 2

FLAG_FRAGMENT == 4

CHANNEL_UU == 0

CHANNEL_RU == 2

CHANNEL_RO == 3

INPUT_FWD == 1

\* the datagram peers (the keys of _recv_packets) and what they send
Peers == {1, 2}

ClientIdOf(ep) == IF ep = 1 THEN 7 ELSE 9

ClientIdSeq == <<7, 9>>

PeerIP(ep) == IF ep = 1 THEN IP_A ELSE IP_B

Nonces == {17, 18}

\* the built-in secret of handleUDPJoin and a key an outsider may try
BUILTIN_SECRET == "r-type-shared-secret"

\* what std::getenv("R_TYPE_SHARED_SECRET") returns in the server's
\* environment: a null pointer, or the configured value
ENV_UNSET == "<null>"

EnvValues == {ENV_UNSET, "configured-secret"}

VARIABLE env_secret

\* secret_str of handleUDPJoin and handleUDPAuthResponse
SharedSecret == IF env_secret = ENV_UNSET THEN BUILTIN_SECRET ELSE env_secret

GuessedSecret == "guess"

\* what the octets of an uninitialised array may hold
GarbageFills == {0, 255}

NONE == "NONE"

CHALLENGED == "CHALLENGED"

AUTHENTICATED == "AUTHENTICATED"

\* utils::Crypto::hmacSHA256: the 32 octets of the digest
hmacSHA256(key, data) ==
    [i \in 1..DIGEST_SIZE |-> [src |-> "hmac", key |-> key, data |-> data, i |-> i]]

\* utils::Crypto::deriveKey: the 32 octets HKDF-SHA256 yields
deriveKey(ikm, salt) ==
    [i \in 1..DIGEST_SIZE |-> [src |-> "hkdf", key |-> ikm, data |-> salt, i |-> i]]

\* the octets of an array that was never written
Indeterminate(fill, n) ==
    [i \in 1..n |-> [src |-> "indeterminate", key |-> "", data |-> <<fill>>, i |-> i]]

\* the 8 octets of a 64-bit timestamp, most significant first (the upper
\* four are 0 for every timestamp below 2^32)
TsBytes(ts) == <<0, 0, 0, 0>> \o U32Bytes(ts)

\* mac_data: the peer's IP, the nonce, the timestamp
MacData(ip_bytes, nonce, ts) == ip_bytes \o <<nonce>> \o TsBytes(ts)

\* GameServerUDPPacketParser::buildHeader, kept as the fields it encodes
udpBuildHeader(cmd, flags, seq, ackBase, ackBits, channel, size, clientId) ==
    [magic |-> GSPCOL_MAGIC, version |-> UDP_VERSION, flags |-> flags, seq |-> seq,
     ackBase |-> ackBase, ackBits |-> ackBits, channel |-> channel, size |-> size,
     clientId |-> clientId, cmd |-> cmd, payload |-> <<>>]

buildAuthOkPacket(seq, ackBase, ackBits, clientId, sessionKey) ==
    [udpBuildHeader(GSCMD_AUTH_OK, FLAG_RELIABLE, seq, ackBase, ackBits, CHANNEL_RO,
                    HEADER_SIZE + 4 + 8, clientId)
        EXCEPT !.payload = U32Bytes(clientId) \o sessionKey]

buildPongResponse(seq, ackBase, ackBits, clientId) ==
    udpBuildHeader(GSCMD_PONG, FLAG_CONN, seq, ackBase, ackBits, CHANNEL_UU, HEADER_SIZE, clientId)

Min2(a, b) == IF a < b THEN a ELSE b

Max2(a, b) == IF a > b THEN a ELSE b

\* what a builder yields when it throws std::runtime_error
BUILD_THROWS == [cmd |-> 0, payload |-> <<>>, size |-> 0, error |-> "Fragment data too large"]

\* [HEADER:21][BASE_SEQ:4][TOTAL_SIZE:4][OFFSET:4][DATA]
buildFragment(seq, ackBase, ackBits, clientId, baseSeq, totalSize, offset, fragmentData) ==
    IF Len(fragmentData) > MAX_PAYLOAD_SIZE - 12 THEN BUILD_THROWS
    ELSE [udpBuildHeader(GSCMD_FRAGMENT, FLAG_RELIABLE + FLAG_FRAGMENT, seq, ackBase, ackBits,
                         CHANNEL_RO, (HEADER_SIZE + 12 + Len(fragmentData)) % 65536, clientId)
            EXCEPT !.payload = U32Bytes(baseSeq) \o U32Bytes(totalSize) \o U32Bytes(offset)
                                  \o fragmentData]

\* the while loop of buildSnapshot over the state data: one fragment of at
\* most MAX_PAYLOAD_SIZE - 16 octets per round
RECURSIVE SnapshotFragments(_, _, _, _, _, _, _)
SnapshotFragments(seq, ackBase, ackBits, clientId, stateData, offset, fragments) ==
    IF offset >= Len(stateData) THEN fragments
    ELSE LET fragment_size == MAX_PAYLOAD_SIZE - 16
             chunk_size == Min2(fragment_size, Len(stateData) - offset)
             fragment_data == SubSeq(stateData, offset + 1, offset + chunk_size)
         IN  SnapshotFragments(seq, ackBase, ackBits, clientId, stateData, offset + chunk_size,
                               Append(fragments,
                                      buildFragment(seq + Len(fragments), ackBase, ackBits, clientId,
                                                    seq, Len(stateData) + 4, offset, fragment_data)))

\* buildSnapshot without the cut into fragments
buildSnapshot_Whole(seq, ackBase, ackBits, clientId, snapshotSeq, stateData) ==
    [udpBuildHeader(GSCMD_SNAPSHOT, FLAG_RELIABLE, seq, ackBase, ackBits, CHANNEL_RO,
                    (HEADER_SIZE + 4 + Len(stateData)) % 65536, clientId)
        EXCEPT !.payload = U32Bytes(snapshotSeq) \o stateData]

\* state data that does not fit one packet is cut into fragments, of which
\* the first is returned
buildSnapshot(seq, ackBase, ackBits, clientId, snapshotSeq, stateData) ==
    IF Len(stateData) > MAX_PAYLOAD_SIZE - 4
    THEN SnapshotFragments(seq, ackBase, ackBits, clientId, stateData, 0, <<>>)[1]
    ELSE [udpBuildHeader(GSCMD_SNAPSHOT, FLAG_RELIABLE, seq, ackBase, ackBits, CHANNEL_RO,
                         (HEADER_SIZE + 4 + Len(stateData)) % 65536, clientId)
            EXCEPT !.payload = U32Bytes(snapshotSeq) \o stateData]

\* [HEADER:21][TIMESTAMP:8][COOKIE:32]
buildChallengeWithCookie(seq, ackBase, ackBits, clientId, timestamp, cookie) ==
    [udpBuildHeader(GSCMD_CHALLENGE, FLAG_RELIABLE, seq, ackBase, ackBits, CHANNEL_RO,
                    HEADER_SIZE + 8 + DIGEST_SIZE, clientId)
        EXCEPT !.payload = TsBytes(timestamp) \o cookie]

\* a datagram as a peer sends it
Dgram(cmd, clientId, body) ==
    [len |-> HEADER_SIZE + Len(body), magic |-> GSPCOL_MAGIC, version |-> UDP_VERSION,
     seq |-> 5, ackBase |-> 0, size |-> HEADER_SIZE + Len(body), clientId |-> clientId,
     cmd |-> cmd, body |-> body]

JoinDgram(clientId, nonce) == Dgram(GSCMD_JOIN, clientId, U32Bytes(clientId) \o <<nonce, UDP_VERSION>>)

AuthDgram(clientId, nonce, cookie) == Dgram(GSCMD_AUTH, clientId, <<nonce>> \o cookie)

InputDgram(clientId) == Dgram(GSCMD_INPUT, clientId, <<INPUT_FWD, 1>>)

BareDgram(cmd, clientId) == Dgram(cmd, clientId, <<>>)

(***************************************************************************)
(* The Game Server's tables as one value S, with the member names of the   *)
(* GameServer class:                                                       *)
(*   client_states   : handle -> [authState, sessionKey] (the challenge    *)
(*                     array of ClientState is never read and is left out) *)
(*   auth_states     : handle -> [timestamp, attempts]                     *)
(*   latency_metrics : handle -> [last_ping, min_rtt, max_rtt, avg_rtt,    *)
(*                     samples]; last_ping = 0 is the default time point   *)
(*   client_ids      : client id -> handle                                 *)
(*   client_sequence_nums, last_received_seq, sack_bits : per handle, 0    *)
(*                     being what operator[] creates                       *)
(*   send_spans      : per endpoint, the packets queued for it             *)
(*   endpoint_to_handle : endpoint -> handle, 0 when the endpoint has none *)
(***************************************************************************)
RTT_UNSET_MIN == 1000000

RTT_UNSET_MAX == 0 - 1000000

DefaultMetrics ==
    [last_ping |-> 0, min_rtt |-> RTT_UNSET_MIN, max_rtt |-> RTT_UNSET_MAX,
     avg_rtt |-> 0, samples |-> 0]

\* _send_spans[ep].push_back(pkt)
udpEnqueue(S, ep, pkt) == [S EXCEPT !.send_spans[ep] = Append(@, pkt)]

IsAuthenticated(S, handle) ==
    handle \in DOMAIN S.client_states /\ S.client_states[handle].authState = AUTHENTICATED

recordAuthAttempt(S, handle, now) ==
    IF handle \notin DOMAIN S.auth_states THEN S
    ELSE [S EXCEPT !.auth_states[handle].attempts = @ + 1,
                   !.auth_states[handle].timestamp = now]

handleUDPJoin(S, handle, pkt, now, fill) ==
    IF HEADER_SIZE + 6 > pkt.len THEN S
    ELSE LET payload_client_id == extractGameId(pkt.body, 0, 0)
             clientId == pkt.clientId
             nonce == pkt.body[5]
             state == [authState |-> CHALLENGED, sessionKey |-> Indeterminate(fill, DIGEST_SIZE)]
             timestamp == now
             cookie == SubSeq(hmacSHA256(SharedSecret, MacData(PeerIP(handle), nonce, timestamp)),
                              1, DIGEST_SIZE)
             aentry == [timestamp |-> now, attempts |-> 0]
             response == buildChallengeWithCookie(0, 0, 0, clientId, timestamp, cookie)
         IN  IF payload_client_id # clientId THEN S
             ELSE udpEnqueue([S EXCEPT !.client_ids = Put(@, clientId, handle),
                                       !.client_sequence_nums[handle] = 1,
                                       !.last_received_seq[handle] = 0,
                                       !.sack_bits[handle] = 0,
                                       !.client_states = Put(@, handle, state),
                                       !.auth_states = Put(@, handle, aentry)],
                             handle, response)

\* the for loop over dt stopping one second short of the timeout
RECURSIVE FindTs_ShortWindow(_, _, _, _, _)
FindTs_ShortWindow(ip_bytes, client_nonce, received_cookie, now_s, dt) ==
    IF dt >= AUTH_TIMEOUT THEN 0 - 1
    ELSE IF hmacSHA256(SharedSecret, MacData(ip_bytes, client_nonce, now_s - dt)) = received_cookie
    THEN now_s - dt
    ELSE FindTs_ShortWindow(ip_bytes, client_nonce, received_cookie, now_s, dt + 1)

\* the for loop over dt: the first timestamp of now, now - 1, ... that
\* reproduces the cookie, or -1
RECURSIVE FindTs(_, _, _, _, _)
FindTs(ip_bytes, client_nonce, received_cookie, now_s, dt) ==
    IF dt > AUTH_TIMEOUT THEN 0 - 1
    ELSE IF hmacSHA256(SharedSecret, MacData(ip_bytes, client_nonce, now_s - dt)) = received_cookie
    THEN now_s - dt
    ELSE FindTs(ip_bytes, client_nonce, received_cookie, now_s, dt + 1)

handleUDPAuthResponse(S, handle, pkt, now, fill) ==
    IF HEADER_SIZE + 1 + 32 > pkt.len THEN S
    ELSE IF handle \notin DOMAIN S.client_states
            \/ S.client_states[handle].authState # CHALLENGED THEN S
    ELSE LET client_nonce == pkt.body[1]
             received_cookie == SubSeq(pkt.body, 2, 33)
             found_ts == FindTs(PeerIP(handle), client_nonce, received_cookie, now, 0)
             derived == deriveKey(SharedSecret, TsBytes(found_ts))
             sessionKey == SubSeq(derived, 1, AUTH_OK_KEY_SIZE)
                            \o SubSeq(S.client_states[handle].sessionKey,
                                      AUTH_OK_KEY_SIZE + 1, DIGEST_SIZE)
             auth_ok == buildAuthOkPacket(S.client_sequence_nums[handle],
                                          S.last_received_seq[handle], S.sack_bits[handle],
                                          pkt.clientId, SubSeq(sessionKey, 1, AUTH_OK_KEY_SIZE))
         IN  IF found_ts < 0 THEN recordAuthAttempt(S, handle, now)
             ELSE udpEnqueue([S EXCEPT !.client_states[handle] =
                                            [authState |-> AUTHENTICATED, sessionKey |-> sessionKey],
                                       !.client_sequence_nums[handle] = @ + 1],
                             handle, auth_ok)

\* the while loop reads type/value pairs (only logged), then the handler
\* takes the sequence number from bytes 5..8 of the packet, where the
\* header's ACKBASE starts one byte earlier: SEQ is bytes 4..7
handleUDPInput(S, handle, pkt, now, fill) ==
    [S EXCEPT !.last_received_seq[handle] =
                    (pkt.seq % 16777216) * 256 + (pkt.ackBase \div 16777216),
              !.sack_bits[handle] = ((@ * 2) + 1) % 256]

\* handleUDPPing without the post-increment of the sequence counter
handleUDPPing_NoAdvance(S, handle, pkt, now, fill) ==
    udpEnqueue([S EXCEPT !.latency_metrics[handle].last_ping = now],
               handle,
               buildPongResponse(S.client_sequence_nums[handle], S.last_received_seq[handle],
                                 S.sack_bits[handle], pkt.clientId))

handleUDPPing(S, handle, pkt, now, fill) ==
    udpEnqueue([S EXCEPT !.latency_metrics[handle].last_ping = now,
                         !.client_sequence_nums[handle] = @ + 1],
               handle,
               buildPongResponse(S.client_sequence_nums[handle], S.last_received_seq[handle],
                                 S.sack_bits[handle], pkt.clientId))

handleUDPPong(S, handle, pkt, now, fill) ==
    LET metrics == S.latency_metrics[handle]
        rtt == now - metrics.last_ping
    IN  IF metrics.last_ping # 0
        THEN [S EXCEPT !.latency_metrics[handle] =
                [last_ping |-> metrics.last_ping,
                 min_rtt |-> Min2(metrics.min_rtt, rtt),
                 max_rtt |-> Max2(metrics.max_rtt, rtt),
                 avg_rtt |-> (metrics.avg_rtt * metrics.samples + rtt) \div (metrics.samples + 1),
                 samples |-> metrics.samples + 1]]
        ELSE S

handleUDPResync(S, handle, pkt, now, fill) ==
    udpEnqueue([S EXCEPT !.client_sequence_nums[handle] = @ + 1],
               handle,
               buildSnapshot(S.client_sequence_nums[handle], S.last_received_seq[handle],
                             S.sack_bits[handle], pkt.clientId, 1, <<1, 2, 3, 4>>))

\* GameServer::_cleanupExpiredAuthChallenges (the endpoint-keyed tables it
\* also sweeps are written nowhere in the sources and stay empty)
cleanupExpiredAuthChallenges(S, now) ==
    LET to_remove == {h \in DOMAIN S.auth_states :
                        \/ S.auth_states[h].attempts >= MAX_AUTH_ATTEMPTS
                        \/ now - S.auth_states[h].timestamp > AUTH_TIMEOUT}
    IN  [S EXCEPT !.auth_states = [h \in (DOMAIN @) \ to_remove |-> @[h]],
                  !.client_states = [h \in (DOMAIN @) \ to_remove |-> @[h]]]

\* the first loop of GameServer::_parsePackets: a PING for every
\* authenticated client whose last ping is older than the interval
RECURSIVE EmitPings(_, _, _)
EmitPings(S, i, now) ==
    IF i > Len(ClientIdSeq) THEN S
    ELSE LET clientId == ClientIdSeq[i]
         IN  IF clientId \notin DOMAIN S.client_ids THEN EmitPings(S, i + 1, now)
             ELSE LET h == S.client_ids[clientId]
                      metrics == S.latency_metrics[h]
                      pkt == udpBuildHeader(GSCMD_PING, FLAG_CONN, S.client_sequence_nums[h],
                                            S.last_received_seq[h], S.sack_bits[h], CHANNEL_UU,
                                            HEADER_SIZE, clientId)
                  IN  IF IsAuthenticated(S, h)
                         /\ (metrics.last_ping = 0 \/ now - metrics.last_ping > PING_INTERVAL)
                      THEN EmitPings(
                              [S EXCEPT !.client_sequence_nums[h] = @ + 1,
                                        !.latency_metrics[h].last_ping = now,
                                        !.send_spans =
                                            [ep \in Peers |->
                                                IF S.endpoint_to_handle[ep] = h
                                                THEN Append(@[ep], pkt) ELSE @[ep]]],
                              i + 1, now)
                      ELSE EmitPings(S, i + 1, now)

\* the body of the loop over the packets of one endpoint: header checks,
\* then the switch on the command
ParseDatagram(S, ep_key, pkt, now, fill) ==
    LET handle == S.endpoint_to_handle[ep_key]
    IN  IF pkt.len < HEADER_SIZE THEN S
        ELSE IF pkt.magic # GSPCOL_MAGIC THEN S
        ELSE IF pkt.version # 1 THEN S
        ELSE IF pkt.cmd = GSCMD_JOIN THEN handleUDPJoin(S, ep_key, pkt, now, fill)
        ELSE IF pkt.cmd = GSCMD_AUTH THEN handleUDPAuthResponse(S, ep_key, pkt, now, fill)
        ELSE IF pkt.cmd = GSCMD_INPUT
        THEN IF handle # 0 /\ IsAuthenticated(S, handle)
             THEN handleUDPInput(S, ep_key, pkt, now, fill) ELSE S
        ELSE IF pkt.cmd = GSCMD_PING THEN handleUDPPing(S, ep_key, pkt, now, fill)
        ELSE IF pkt.cmd = GSCMD_PONG THEN handleUDPPong(S, ep_key, pkt, now, fill)
        ELSE IF pkt.cmd = GSCMD_RESYNC
        THEN IF handle # 0 /\ IsAuthenticated(S, handle)
             THEN handleUDPResync(S, ep_key, pkt, now, fill) ELSE S
        ELSE S

RECURSIVE ParseBatch(_, _, _, _, _, _)
ParseBatch(S, ep_key, packets, i, now, fill) ==
    IF i > Len(packets) THEN S
    ELSE CHOOSE out \in
            {ParseBatch(S1, ep_key, packets, i + 1, now, fill)
             : S1 \in {ParseDatagram(S, ep_key, packets[i], now, fill)}} : TRUE

\* GameServer::_parsePackets with the packets received from ep_key: pings,
\* the packets in order, then the sweep of the auth challenges
udpParsePackets(S, ep_key, packets, now, fill) ==
    CHOOSE out \in
        {cleanupExpiredAuthChallenges(S2, now)
         : S2 \in {ParseBatch(S1, ep_key, packets, 1, now, fill) : S1 \in {EmitPings(S, 1, now)}}}
        : TRUE

(***************************************************************************)
(* The Game Server's stream to the gateway.  Its members as one value T:   *)
(*   recv_spans     : the bytes received on _tcp_handle and not yet parsed *)
(*   send_spans     : the buffers queued for _tcp_handle, oldest first     *)
(*   game_instances : the ids of the games running on this server          *)
(* A handler returns [G, offset, threw] like the gateway's handlers, with  *)
(* T in the place of G.                                                    *)
(***************************************************************************)
\* the endpoint the server registers and the one it announces for its games
BaseEndpoint == KeyA

\* parseHeader returning the CMD byte without moving the offset
parseHeader_Peek(data, offset) ==
    IF offset + 5 > Len(data)
    THEN [threw |-> TRUE, offset |-> offset, cmd |-> 0]
    ELSE IF getNextVal16(data, offset) # HEADER_MAGIC
    THEN [threw |-> TRUE, offset |-> offset, cmd |-> 0]
    ELSE IF getNextVal8(data, offset + 2) # MAXIMUM_VERSION
    THEN [threw |-> TRUE, offset |-> offset, cmd |-> 0]
    ELSE [threw |-> FALSE, offset |-> offset, cmd |-> At(data, offset + 4, 0)]

\* GameServerPacketParser::parseHeader: leaves offset on the CMD byte
parseHeader(data, offset) ==
    IF offset + 5 > Len(data)
    THEN [threw |-> TRUE, offset |-> offset, cmd |-> 0]
    ELSE IF getNextVal16(data, offset) # HEADER_MAGIC
    THEN [threw |-> TRUE, offset |-> offset + 2, cmd |-> 0]
    ELSE IF getNextVal8(data, offset + 2) # MAXIMUM_VERSION
    THEN [threw |-> TRUE, offset |-> offset + 3, cmd |-> 0]
    ELSE IF offset + 4 >= Len(data)
    THEN [threw |-> TRUE, offset |-> offset + 4, cmd |-> 0]
    ELSE [threw |-> FALSE, offset |-> offset + 4, cmd |-> At(data, offset + 4, 0)]

buildCreateKO == buildHeader(CMD_CREATE_KO, 0)

\* _tcp_send_spans[_tcp_handle].push_back(packet)
tcpEnqueue(T, packet) == [T EXCEPT !.send_spans = Append(@, packet)]

\* the body of generate_unique_game_id is not part of the sources: an id no
\* running game has
generate_unique_game_id(T) ==
    CHOOSE id \in 1..(Cardinality(T.game_instances) + 1) :
        /\ id \notin T.game_instances
        /\ \A other \in 1..(id - 1) : other \in T.game_instances

\* GameServer::_handleGatewayOKKO
handleGatewayOKKO(T, cmd, data, offset) == Ok(T, offset + 1)

\* GameServer::_handleOccupancyRequest
handleOccupancyRequest(T, data, offset) ==
    IF offset + 1 > Len(data) THEN Throw(T, offset)
    ELSE Ok(tcpEnqueue(T, buildOccupancy(0)), offset + 1)

\* GameServer::handleCreate (sendErrorResponse for a CREATE without type)
GameServer_handleCreate(T, data, offset) ==
    IF offset + 1 + 1 > Len(data) THEN Ok(tcpEnqueue(T, buildCreateKO), offset)
    ELSE LET new_game_id == generate_unique_game_id(T)
         IN  Ok(tcpEnqueue([T EXCEPT !.game_instances = @ \cup {new_game_id}],
                           buildJoinResponse(new_game_id, BaseEndpoint[1], BaseEndpoint[2])),
                offset + 2)

\* one iteration of the loop of GameServer::_parseTcpPackets: the header,
\* then the switch; an unknown command is logged and the loop goes on
ParseTcpStep(T, buf, offset) ==
    LET hd == parseHeader(buf, offset)
    IN  IF hd.threw THEN Throw(T, hd.offset)
        ELSE IF hd.cmd \in {CMD_GS_OK, CMD_GS_KO} THEN handleGatewayOKKO(T, hd.cmd, buf, hd.offset)
        ELSE IF hd.cmd = CMD_OCCUPANCY THEN handleOccupancyRequest(T, buf, hd.offset)
        ELSE IF hd.cmd = CMD_CREATE THEN GameServer_handleCreate(T, buf, hd.offset)
        ELSE Ok(T, hd.offset)

\* the while loop with its catch block; trace lists, for every iteration,
\* the offset it started at, the offset it ended at and whether it left
\* the loop
RECURSIVE ParseTcpBuffer(_, _, _, _)
ParseTcpBuffer(T, buf, offset, trace) ==
    IF ~(offset < Len(buf)) THEN [T |-> T, offset |-> offset, trace |-> trace]
    ELSE CHOOSE out \in
            {IF r.threw
             THEN [T |-> r.G, offset |-> r.offset,
                   trace |-> Append(trace, [at |-> offset, to |-> r.offset, left |-> TRUE])]
             ELSE ParseTcpBuffer(r.G, buf, r.offset,
                                 Append(trace, [at |-> offset, to |-> r.offset, left |-> FALSE]))
             : r \in {ParseTcpStep(T, buf, offset)}} : TRUE

\* GameServer::_parseTcpPackets: the loop, then the parsed bytes are erased
parseTcpPackets(T) ==
    CHOOSE out \in
        {[r.T EXCEPT !.recv_spans =
                IF r.offset > 0 /\ r.offset <= Len(@) THEN SubSeq(@, r.offset + 1, Len(@)) ELSE @]
         : r \in {ParseTcpBuffer(T, T.recv_spans, 0, <<>>)}} : TRUE

\* prepareTcpSendQueue: the non-empty buffers, each with offset 0
prepareTcpSendQueue(bufs) ==
    [i \in DOMAIN SelectSeq(bufs, LAMBDA b : b # <<>>) |->
        [data |-> SelectSeq(bufs, LAMBDA b : b # <<>>)[i], offset |-> 0]]

\* the value send returns at its i-th call in one processTcpSendQueue: the
\* first k calls take all they are given, the later ones fail (o < 0) or
\* take at most o bytes
SendResult(i, k, o, to_send) ==
    IF i <= k THEN to_send ELSE IF o < 0 THEN 0 - 1 ELSE Min2(o, to_send)

\* processTcpSendQueue: returns the queue that is left and the bytes the
\* kernel accepted
RECURSIVE processTcpSendQueue(_, _, _, _, _)
processTcpSendQueue(sendQueue, i, k, o, wire) ==
    IF sendQueue = <<>> THEN [sendQueue |-> sendQueue, wire |-> wire]
    ELSE LET front == Head(sendQueue)
             to_send == Len(front.data) - front.offset
             sent == SendResult(i, k, o, to_send)
         IN  IF sent < 0 THEN [sendQueue |-> sendQueue, wire |-> wire]
             ELSE IF front.offset + sent = Len(front.data)
             THEN processTcpSendQueue(Tail(sendQueue), i + 1, k, o,
                                      wire \o SubSeq(front.data, front.offset + 1,
                                                     front.offset + sent))
             ELSE [sendQueue |-> <<[front EXCEPT !.offset = @ + sent]>> \o Tail(sendQueue),
                   wire |-> wire \o SubSeq(front.data, front.offset + 1, front.offset + sent)]

\* updateTcpSendBuffers pushing back whole buffers instead of what remains
RECURSIVE updateTcpSendBuffers_Whole(_, _)
updateTcpSendBuffers_Whole(sendQueue, bufs) ==
    IF sendQueue = <<>> THEN bufs
    ELSE LET front == Head(sendQueue)
         IN  updateTcpSendBuffers_Whole(Tail(sendQueue),
                IF front.offset < Len(front.data) THEN Append(bufs, front.data) ELSE bufs)

\* updateTcpSendBuffers: what remains of every buffer goes back in order
RECURSIVE updateTcpSendBuffers(_, _)
updateTcpSendBuffers(sendQueue, bufs) ==
    IF sendQueue = <<>> THEN bufs
    ELSE LET front == Head(sendQueue)
         IN  updateTcpSendBuffers(Tail(sendQueue),
                IF front.offset < Len(front.data)
                THEN Append(bufs, SubSeq(front.data, front.offset + 1, Len(front.data)))
                ELSE bufs)

\* GameServer::_sendTcpPackets: returns the buffers left and the bytes sent
sendTcpPackets(bufs, k, o) ==
    IF bufs = <<>> THEN [bufs |-> bufs, wire |-> <<>>]
    ELSE CHOOSE out \in
            {[bufs |-> updateTcpSendBuffers(r.sendQueue, <<>>), wire |-> r.wire]
             : r \in {processTcpSendQueue(prepareTcpSendQueue(bufs), 1, k, o, <<>>)}} : TRUE

(***************************************************************************)
(* State.  The first nine variables are the gateway's members; the last    *)
(* three belong to the environment:                                        *)
(*   outstanding[h] : the clients whose CREATE was forwarded to GS handle  *)
(*                    h and not yet answered by that GS, oldest first (a   *)
(*                    GS answers the CREATEs of its stream in order)       *)
(*   creates[c]     : the number of CREATE frames of c handled so far      *)
(*   nframes        : the number of frames delivered so far                *)
(***************************************************************************)
VARIABLES recv_spans, send_spans, parseErrors, gs_registry, gs_addr_to_handle,
          occupancy_cache, game_to_gs, pending_creates, closed,
          outstanding, creates, nframes,
          client_states, auth_states, latency_metrics, client_ids,
          client_sequence_nums, last_received_seq, sack_bits, gs_send_spans,
          endpoint_to_handle, gs_now, gs_passes, gs_wire, gs_pollout, client_to_game,
          build_in, build_out,
          tcp_recv_spans, tcp_send_spans, game_instances, tcp_wire, tcp_enqueued,
          tcp_steps

\* the gateway's variables (with its environment) and the Game Server's
gwvars == <<recv_spans, send_spans, parseErrors, gs_registry, gs_addr_to_handle,
            occupancy_cache, game_to_gs, pending_creates, closed,
            outstanding, creates, nframes>>

\* the Game Server's datagram side, its stream to the gateway, and both
udpvars == <<client_states, auth_states, latency_metrics, client_ids,
             client_sequence_nums, last_received_seq, sack_bits, gs_send_spans,
             endpoint_to_handle, gs_now, gs_passes, env_secret, gs_wire, gs_pollout,
             client_to_game, build_in, build_out>>

tcpvars == <<tcp_recv_spans, tcp_send_spans, game_instances, tcp_wire, tcp_enqueued,
             tcp_steps>>

gsvars == <<udpvars, tcpvars>>

vars == <<gwvars, gsvars>>

Gw == [recv_spans |-> recv_spans, send_spans |-> send_spans, parseErrors |-> parseErrors,
       gs_registry |-> gs_registry, gs_addr_to_handle |-> gs_addr_to_handle,
       occupancy_cache |-> occupancy_cache, game_to_gs |-> game_to_gs,
       pending_creates |-> pending_creates, closed |-> closed]

Init ==
    /\ recv_spans = [h \in Handles |-> <<>>]
    /\ send_spans = [h \in Handles |-> <<>>]
    /\ parseErrors = [h \in Handles |-> 0]
    /\ gs_registry = <<>>
    /\ gs_addr_to_handle = <<>>
    /\ occupancy_cache = <<>>
    /\ game_to_gs = <<>>
    /\ pending_creates = <<>>
    /\ closed = {}
    /\ outstanding = [h \in Handles |-> <<>>]
    /\ creates = [h \in Handles |-> 0]
    /\ nframes = 0
    /\ client_states = <<>>
    /\ auth_states = <<>>
    /\ latency_metrics = [h \in Peers |-> DefaultMetrics]
    /\ client_ids = <<>>
    /\ client_sequence_nums = [h \in Peers |-> 0]
    /\ last_received_seq = [h \in Peers |-> 0]
    /\ sack_bits = [h \in Peers |-> 0]
    /\ gs_send_spans = [h \in Peers |-> <<>>]
    /\ endpoint_to_handle = [h \in Peers |-> 0]
    /\ gs_now = StartTime
    /\ gs_passes = 0
    /\ env_secret \in EnvValues
    /\ gs_wire = [ep \in Peers |-> <<>>]
    /\ gs_pollout = FALSE
    /\ client_to_game = <<>>
    /\ build_in = [builder |-> "none", seq |-> 0, n |-> 0]
    /\ build_out = <<>>
    /\ tcp_recv_spans = <<>>
    /\ tcp_send_spans = <<>>
    /\ game_instances = {}
    /\ tcp_wire = <<>>
    /\ tcp_enqueued = <<>>
    /\ tcp_steps = 0

RECURSIVE Forwarded(_, _, _)
Forwarded(log, i, gs) ==
    IF i > Len(log) THEN <<>>
    ELSE (IF log[i].fwd = gs THEN <<log[i].h>> ELSE <<>>) \o Forwarded(log, i + 1, gs)

Handled(log, handle, cmd) ==
    Cardinality({i \in DOMAIN log : log[i].h = handle /\ log[i].cmd = cmd})

\* handle sends the frame bytes; answered = 1 when the frame is a Game
\* Server's answer to the oldest CREATE outstanding on its stream
Receive(handle, bytes, nd, answered) ==
    /\ handle \notin closed
    /\ \E R \in {Deliver(Gw, handle, bytes, nd)} :
           /\ recv_spans' = R.G.recv_spans
           /\ send_spans' = R.G.send_spans
           /\ parseErrors' = R.G.parseErrors
           /\ gs_registry' = R.G.gs_registry
           /\ gs_addr_to_handle' = R.G.gs_addr_to_handle
           /\ occupancy_cache' = R.G.occupancy_cache
           /\ game_to_gs' = R.G.game_to_gs
           /\ pending_creates' = R.G.pending_creates
           /\ closed' = R.G.closed
           /\ outstanding' =
                [h \in Handles |->
                    (IF h = handle /\ answered = 1 THEN Tail(outstanding[h]) ELSE outstanding[h])
                        \o Forwarded(R.log, 1, h)]
           /\ creates' = [h \in Handles |-> creates[h] + Handled(R.log, h, CMD_CREATE)]
    /\ nframes' = nframes + 1
    /\ UNCHANGED gsvars

RecvGSRegistration(handle, key, nd) ==
    Receive(handle, buildGSRegistration(key[1], key[2]), nd, 0)

RecvOccupancy(handle, occ, nd) == Receive(handle, buildOccupancy(occ), nd, 0)

RecvGID(handle, game_id, nd) == Receive(handle, buildGIDRegistration(<<game_id>>), nd, 0)

RecvGameEnd(handle, game_id, nd) == Receive(handle, buildGameEnd(game_id), nd, 0)

\* GameServer::handleCreate: one JOIN response per CREATE received
RecvJoinResponse(handle, game_id, nd) ==
    /\ outstanding[handle] # <<>>
    /\ Receive(handle,
               buildJoinResponse(game_id, ExternalEndpoint(handle)[1], ExternalEndpoint(handle)[2]),
               nd, 1)

RecvJoin(handle, game_id, nd) == Receive(handle, ClientJoin(game_id), nd, 0)

RecvCreate(handle, gametype, nd) == Receive(handle, ClientCreate(gametype), nd, 0)

Next ==
    \/ \E h \in GSHandles, k \in Keys, nd \in WholeFrameInputs :
            nframes < MaxFrames /\ RecvGSRegistration(h, k, nd)
    \/ \E h \in GSHandles, o \in OccValues, nd \in WholeFrameInputs :
            nframes < MaxFrames /\ RecvOccupancy(h, o, nd)
    \/ \E h \in GSHandles, g \in GameIds, nd \in WholeFrameInputs :
            nframes < MaxFrames /\ RecvGID(h, g, nd)
    \/ \E h \in GSHandles, g \in GameIds, nd \in WholeFrameInputs :
            nframes < MaxFrames /\ RecvGameEnd(h, g, nd)
    \/ \E h \in GSHandles, g \in GameIds, nd \in WholeFrameInputs :
            nframes < MaxFrames /\ RecvJoinResponse(h, g, nd)
    \/ \E h \in ClientHandles, g \in GameIds, nd \in WholeFrameInputs :
            nframes < MaxFrames /\ RecvJoin(h, g, nd)
    \/ \E h \in ClientHandles, t \in GameTypes, nd \in WholeFrameInputs :
            nframes < MaxFrames /\ RecvCreate(h, t, nd)

Spec == Init /\ [][Next]_vars

(***************************************************************************)
(* The create/relay traffic alone, followed over more frames: Game Servers *)
(* register and answer the CREATEs forwarded to them, clients send CREATE. *)
(***************************************************************************)
NextRelay ==
    \/ \E h \in GSHandles, k \in Keys, nd \in WholeFrameInputs :
            nframes < MaxRelayFrames /\ RecvGSRegistration(h, k, nd)
    \/ \E h \in GSHandles, g \in GameIds, nd \in WholeFrameInputs :
            nframes < MaxRelayFrames /\ RecvJoinResponse(h, g, nd)
    \/ \E h \in ClientHandles, t \in GameTypes, nd \in WholeFrameInputs :
            nframes < MaxRelayFrames /\ RecvCreate(h, t, nd)

SpecRelay == Init /\ [][NextRelay]_vars

(***************************************************************************)
(* The routing traffic of one game, followed over more frames: Game        *)
(* Servers register, announce game 66 by GID or by answering a CREATE,     *)
(* and client 3 sends CREATE and JOIN.                                     *)
(***************************************************************************)
NextRoute ==
    \/ \E h \in GSHandles, k \in Keys, nd \in WholeFrameInputs :
            nframes < MaxRouteFrames /\ RecvGSRegistration(h, k, nd)
    \/ \E h \in GSHandles, nd \in WholeFrameInputs :
            nframes < MaxRouteFrames /\ RecvGID(h, 66, nd)
    \/ \E h \in GSHandles, nd \in WholeFrameInputs :
            nframes < MaxRouteFrames /\ RecvJoinResponse(h, 66, nd)
    \/ \E nd \in WholeFrameInputs :
            nframes < MaxRouteFrames /\ RecvJoin(3, 66, nd)
    \/ \E t \in GameTypes, nd \in WholeFrameInputs :
            nframes < MaxRouteFrames /\ RecvCreate(3, t, nd)

SpecRoute == Init /\ [][NextRoute]_vars

(***************************************************************************)
(* The gateway tables the parsing loop can meet, reached in few frames: a  *)
(* Game Server registers, announces game 66, is sent a CREATE of client 3  *)
(* and answers it, or ends game 66.                                        *)
(***************************************************************************)
NextParse ==
    \/ \E h \in GSHandles, nd \in WholeFrameInputs :
            nframes < MaxParseFrames /\ RecvGSRegistration(h, KeyA, nd)
    \/ \E h \in GSHandles, nd \in WholeFrameInputs :
            nframes < MaxParseFrames /\ RecvGID(h, 66, nd)
    \/ \E h \in GSHandles, nd \in WholeFrameInputs :
            nframes < MaxParseFrames /\ RecvGameEnd(h, 66, nd)
    \/ \E h \in GSHandles, nd \in WholeFrameInputs :
            nframes < MaxParseFrames /\ RecvJoinResponse(h, 66, nd)
    \/ \E nd \in WholeFrameInputs :
            nframes < MaxParseFrames /\ RecvCreate(3, RTYPE, nd)

SpecParse == Init /\ [][NextParse]_vars

(***************************************************************************)
(* The Game Server's datagram side.  A pass is GameServer::_parsePackets   *)
(* run on the datagrams one endpoint sent since the previous pass.         *)
(***************************************************************************)
Gs == [client_states |-> client_states, auth_states |-> auth_states,
       latency_metrics |-> latency_metrics, client_ids |-> client_ids,
       client_sequence_nums |-> client_sequence_nums,
       last_received_seq |-> last_received_seq, sack_bits |-> sack_bits,
       send_spans |-> gs_send_spans, endpoint_to_handle |-> endpoint_to_handle]

\* the cookies endpoint ep was sent in CHALLENGE packets
KnownCookies(ep) ==
    {SubSeq(gs_send_spans[ep][i].payload, 9, 8 + DIGEST_SIZE)
        : i \in {j \in DOMAIN gs_send_spans[ep] : gs_send_spans[ep][j].cmd = GSCMD_CHALLENGE}}

\* a cookie computed without the shared secret
ForgedCookie(ep) == hmacSHA256(GuessedSecret, MacData(PeerIP(ep), 17, gs_now))

Pass(ep, packets, fill) ==
    /\ gs_passes < MaxPasses
    /\ \E R \in {udpParsePackets(Gs, ep, packets, gs_now, fill)} :
           /\ client_states' = R.client_states
           /\ auth_states' = R.auth_states
           /\ latency_metrics' = R.latency_metrics
           /\ client_ids' = R.client_ids
           /\ client_sequence_nums' = R.client_sequence_nums
           /\ last_received_seq' = R.last_received_seq
           /\ sack_bits' = R.sack_bits
           /\ gs_send_spans' = R.send_spans
           /\ endpoint_to_handle' = R.endpoint_to_handle
    /\ gs_passes' = gs_passes + 1
    /\ gs_pollout' = (gs_pollout \/ gs_send_spans' # gs_send_spans)
    /\ UNCHANGED <<gs_now, env_secret, gs_wire, client_to_game, build_in, build_out,
                   tcpvars, gwvars>>

\* the clock advances by one second or by the length of the auth timeout
TickSteps == {1, AUTH_TIMEOUT}

Tick(d) ==
    /\ gs_now + d <= MaxTime
    /\ gs_now' = gs_now + d
    /\ UNCHANGED <<client_states, auth_states, latency_metrics, client_ids,
                   client_sequence_nums, last_received_seq, sack_bits, gs_send_spans,
                   endpoint_to_handle, gs_passes, env_secret, gs_wire, gs_pollout,
                   client_to_game, build_in, build_out, tcpvars, gwvars>>

\* the endpoint gets its entry in _endpoint_to_handle
BindEndpoint(ep) ==
    /\ endpoint_to_handle[ep] = 0
    /\ endpoint_to_handle' = [endpoint_to_handle EXCEPT ![ep] = ep]
    /\ UNCHANGED <<client_states, auth_states, latency_metrics, client_ids,
                   client_sequence_nums, last_received_seq, sack_bits, gs_send_spans,
                   gs_now, gs_passes, env_secret, gs_wire, gs_pollout, client_to_game,
                   build_in, build_out, tcpvars, gwvars>>

\* a pass of the server loop in which no datagram arrived
Sweep == Pass(1, <<>>, 0)

RecvUDPJoin(ep, fill) == Pass(ep, <<JoinDgram(ClientIdOf(ep), 17)>>, fill)

RecvUDPAuth(ep, nonce, cookie) == Pass(ep, <<AuthDgram(ClientIdOf(ep), nonce, cookie)>>, 0)

\* three AUTH datagrams that fail, then one with the given cookie
AuthBurst(ep, cookie) ==
    <<AuthDgram(ClientIdOf(ep), 17, ForgedCookie(ep)),
      AuthDgram(ClientIdOf(ep), 17, ForgedCookie(ep)),
      AuthDgram(ClientIdOf(ep), 17, ForgedCookie(ep)),
      AuthDgram(ClientIdOf(ep), 17, cookie)>>

\* three AUTH datagrams with forged cookies and a fourth that echoes the
\* cookie of the challenge, received together
RecvUDPAuthBurst(ep, cookie) == Pass(ep, AuthBurst(ep, cookie), 0)

RecvUDPInput(ep) == Pass(ep, <<InputDgram(ClientIdOf(ep))>>, 0)

\* PING, PONG, RESYNC, ACK, CHAT or FRAGMENT without body
RecvUDPBare(ep, cmd) == Pass(ep, <<BareDgram(cmd, ClientIdOf(ep))>>, 0)

\* the endpoints that send datagrams, and the body-less commands they use
Senders == {1}

BareCmds == {GSCMD_PING, GSCMD_PONG, GSCMD_RESYNC, GSCMD_ACK}

NextGS ==
    \/ \E d \in TickSteps : Tick(d)
    \/ \E ep \in Senders : BindEndpoint(ep)
    \/ Sweep
    \/ \E ep \in Senders, fill \in GarbageFills : RecvUDPJoin(ep, fill)
    \/ \E ep \in Senders :
            \E cookie \in KnownCookies(ep) \cup {ForgedCookie(ep)} : RecvUDPAuth(ep, 17, cookie)
    \/ \E ep \in Senders : \E cookie \in KnownCookies(ep) : RecvUDPAuthBurst(ep, cookie)
    \/ \E ep \in Senders : RecvUDPInput(ep)
    \/ \E ep \in Senders, cmd \in BareCmds : RecvUDPBare(ep, cmd)

SpecGS == Init /\ [][NextGS]_vars

(***************************************************************************)
(* GameServer::_sendPackets on a writable event of the datagram socket.    *)
(***************************************************************************)
\* the for loop over the buffers of one queue: sendto for each in order; a
\* buffer whose sendto fails with EAGAIN / EWOULDBLOCK is skipped
RECURSIVE SendBufs(_, _, _, _)
SendBufs(bufs, i, blocked, wire) ==
    IF i > Len(bufs) THEN wire
    ELSE IF i \in blocked THEN SendBufs(bufs, i + 1, blocked, wire)
    ELSE SendBufs(bufs, i + 1, blocked, Append(wire, bufs[i]))

\* the positions of a queue at which the kernel refuses the datagram
BlockChoices == SUBSET {1, 2}

\* every queue is walked, then erased; the interest bit is cleared at the end
SendPackets(blocked) ==
    /\ gs_pollout
    /\ gs_wire' = [ep \in Peers |-> SendBufs(gs_send_spans[ep], 1, blocked, gs_wire[ep])]
    /\ gs_send_spans' = [ep \in Peers |-> <<>>]
    /\ gs_pollout' = FALSE
    /\ UNCHANGED <<client_states, auth_states, latency_metrics, client_ids,
                   client_sequence_nums, last_received_seq, sack_bits,
                   endpoint_to_handle, gs_now, gs_passes, env_secret, client_to_game,
                   build_in, build_out, tcpvars, gwvars>>

\* the cookies of the CHALLENGE packets that reached endpoint ep
WireCookies(ep) ==
    {SubSeq(gs_wire[ep][i].payload, 9, 8 + DIGEST_SIZE)
        : i \in {j \in DOMAIN gs_wire[ep] : gs_wire[ep][j].cmd = GSCMD_CHALLENGE}}

NextSend ==
    \/ \E ep \in Senders : RecvUDPJoin(ep, 0)
    \/ \E ep \in Senders : \E cookie \in WireCookies(ep) : RecvUDPAuth(ep, 17, cookie)
    \/ \E ep \in Senders : RecvUDPBare(ep, GSCMD_PING)
    \/ \E blocked \in BlockChoices : SendPackets(blocked)

SpecSend == Init /\ [][NextSend]_vars

(***************************************************************************)
(* GameServer::_send_game_snapshots.                                       *)
(***************************************************************************)
\* the games that run on this server and the sequence number of a snapshot
GameInstances == {1, 2}

SNAPSHOT_SEQ == 1

\* the state data of a snapshot of n octets
StateData(n) == [i \in 1..n |-> i % 251]

\* the sizes of the snapshots the games produce
SnapshotSizes == {4, 3000}

\* get_clients_in_game, in the order of ClientIdSeq
RECURSIVE get_clients_in_game(_, _, _)
get_clients_in_game(c2g, game_id, i) ==
    IF i > Len(ClientIdSeq) THEN <<>>
    ELSE (IF ClientIdSeq[i] \in DOMAIN c2g /\ c2g[ClientIdSeq[i]] = game_id
          THEN <<ClientIdSeq[i]>> ELSE <<>>)
            \o get_clients_in_game(c2g, game_id, i + 1)

\* the loop over the clients of one game: a snapshot packet is built for
\* each client that has a handle, and queued for the first endpoint bound
\* to the handle
RECURSIVE SnapshotToClients(_, _, _, _)
SnapshotToClients(S, clients, i, data) ==
    IF i > Len(clients) THEN S
    ELSE IF clients[i] \notin DOMAIN S.client_ids THEN SnapshotToClients(S, clients, i + 1, data)
    ELSE LET client_id == clients[i]
             handle == S.client_ids[client_id]
             packet == buildSnapshot(S.client_sequence_nums[handle], S.last_received_seq[handle],
                                     S.sack_bits[handle], client_id, SNAPSHOT_SEQ, data)
             bound == {ep \in Peers : S.endpoint_to_handle[ep] = handle}
             S1 == [S EXCEPT !.client_sequence_nums[handle] = @ + 1]
         IN  SnapshotToClients(
                IF bound = {} THEN S1
                ELSE [S1 EXCEPT !.send_spans[CHOOSE ep \in bound : TRUE] = Append(@, packet)],
                clients, i + 1, data)

\* game game_id has produced a snapshot of n octets, the other games none
send_game_snapshots(S, c2g, game_id, n) ==
    CHOOSE out \in {SnapshotToClients(S, clients, 1, StateData(n))
                        : clients \in {get_clients_in_game(c2g, game_id, 1)}} : TRUE

SendGameSnapshots(game_id, n) ==
    /\ gs_passes < MaxPasses
    /\ \E R \in {send_game_snapshots(Gs, client_to_game, game_id, n)} :
           /\ client_sequence_nums' = R.client_sequence_nums
           /\ gs_send_spans' = R.send_spans
    /\ gs_pollout' = (gs_pollout \/ gs_send_spans' # gs_send_spans)
    /\ gs_passes' = gs_passes + 1
    /\ UNCHANGED <<client_states, auth_states, latency_metrics, client_ids, last_received_seq,
                   sack_bits, endpoint_to_handle, gs_now, env_secret, gs_wire, client_to_game,
                   build_in, build_out, tcpvars, gwvars>>

\* the client is put into a game
BindGame(client_id, game_id) ==
    /\ client_id \notin DOMAIN client_to_game
    /\ client_to_game' = Put(client_to_game, client_id, game_id)
    /\ UNCHANGED <<client_states, auth_states, latency_metrics, client_ids,
                   client_sequence_nums, last_received_seq, sack_bits, gs_send_spans,
                   endpoint_to_handle, gs_now, gs_passes, env_secret, gs_wire, gs_pollout,
                   build_in, build_out, tcpvars, gwvars>>

NextSnap ==
    \/ \E ep \in Peers : BindEndpoint(ep)
    \/ \E ep \in Peers, g \in GameInstances : BindGame(ClientIdOf(ep), g)
    \/ \E ep \in Peers : RecvUDPJoin(ep, 0)
    \/ \E ep \in Peers : \E cookie \in KnownCookies(ep) : RecvUDPAuth(ep, 17, cookie)
    \/ \E g \in GameInstances, n \in SnapshotSizes : SendGameSnapshots(g, n)

SpecSnap == Init /\ [][NextSnap]_vars

(***************************************************************************)
(* The packet builders of GameServerUDPPacketParser, called on their own.  *)
(***************************************************************************)
\* the sizes of the state data and fragment data handed to the builders,
\* around the limits of one packet, and the sequence numbers
BuildSizes == {0, 1, 4, 1163, 1164, 1167, 1168, 1175, 1176, 1179, 2326, 2327, LargeSnapshot}

BuildSeqs == {0, 1, 2, 1000}

SmallBuilders == {"ping", "pong", "challenge", "auth_ok"}

\* the result of a builder as the list of packets it returned: none when
\* it threw
Returned(packet) == IF packet = BUILD_THROWS THEN <<>> ELSE <<packet>>

BuildSnapshotCall(seq, n) ==
    /\ build_in' = [builder |-> "snapshot", seq |-> seq, n |-> n]
    /\ build_out' = Returned(buildSnapshot(seq, 0, 0, 7, SNAPSHOT_SEQ, StateData(n)))
    /\ UNCHANGED <<client_states, auth_states, latency_metrics, client_ids,
                   client_sequence_nums, last_received_seq, sack_bits, gs_send_spans,
                   endpoint_to_handle, gs_now, gs_passes, env_secret, gs_wire, gs_pollout,
                   client_to_game, tcpvars, gwvars>>

BuildFragmentCall(seq, n) ==
    /\ build_in' = [builder |-> "fragment", seq |-> seq, n |-> n]
    /\ build_out' = Returned(buildFragment(seq, 0, 0, 7, seq, n, 0, StateData(n)))
    /\ UNCHANGED <<client_states, auth_states, latency_metrics, client_ids,
                   client_sequence_nums, last_received_seq, sack_bits, gs_send_spans,
                   endpoint_to_handle, gs_now, gs_passes, env_secret, gs_wire, gs_pollout,
                   client_to_game, tcpvars, gwvars>>

BuildSmallCall(builder, seq) ==
    /\ build_in' = [builder |-> builder, seq |-> seq, n |-> 0]
    /\ build_out' =
         Returned(CASE builder = "ping" ->
                         udpBuildHeader(GSCMD_PING, FLAG_CONN, seq, 0, 0, CHANNEL_UU, HEADER_SIZE, 7)
                    [] builder = "pong" -> buildPongResponse(seq, 0, 0, 7)
                    [] builder = "challenge" ->
                         buildChallengeWithCookie(seq, 0, 0, 7, gs_now,
                                                  hmacSHA256(SharedSecret, MacData(IP_A, 17, gs_now)))
                    [] OTHER ->
                         buildAuthOkPacket(seq, 0, 0, 7,
                                           SubSeq(deriveKey(SharedSecret, TsBytes(gs_now)),
                                                  1, AUTH_OK_KEY_SIZE)))
    /\ UNCHANGED <<client_states, auth_states, latency_metrics, client_ids,
                   client_sequence_nums, last_received_seq, sack_bits, gs_send_spans,
                   endpoint_to_handle, gs_now, gs_passes, env_secret, gs_wire, gs_pollout,
                   client_to_game, tcpvars, gwvars>>

NextBuild ==
    \/ \E seq \in BuildSeqs, n \in BuildSizes : BuildSnapshotCall(seq, n)
    \/ \E seq \in BuildSeqs, n \in BuildSizes : BuildFragmentCall(seq, n)
    \/ \E b \in SmallBuilders, seq \in BuildSeqs : BuildSmallCall(b, seq)

SpecBuild == Init /\ [][NextBuild]_vars

(***************************************************************************)
(* The Game Server's stream to the gateway on its own: the server queues   *)
(* its registration, the gateway's bytes arrive in chunks and are parsed,  *)
(* and _sendTcpPackets runs with every outcome send can have.  Two         *)
(* variables belong to the environment: tcp_wire, the bytes the kernel     *)
(* accepted so far, and tcp_enqueued, the bytes of all buffers queued so   *)
(* far in the order they were queued.                                      *)
(***************************************************************************)
Tcp == [recv_spans |-> tcp_recv_spans, send_spans |-> tcp_send_spans,
        game_instances |-> game_instances]

RECURSIVE Flatten(_)
Flatten(bufs) == IF bufs = <<>> THEN <<>> ELSE Head(bufs) \o Flatten(Tail(bufs))

\* what the gateway's bytes arrive as: GS_OK, an occupancy request, a
\* CREATE, a CREATE cut after its header, the type byte that follows, and a
\* byte that starts no frame
TcpChunks ==
    {buildSimpleResponse(CMD_GS_OK), buildHeader(CMD_OCCUPANCY, 0), buildCreateMsg(RTYPE),
     buildHeader(CMD_CREATE, 0), <<RTYPE>>, <<255>>}

\* the send calls that take everything, and what the next call returns
SendCounts == 0..2

SendOutcomes == {0 - 1, 0, 1, 7}

\* GameServer::_sendGSRegistration
SendGSRegistration ==
    /\ tcp_steps < MaxTcpSteps
    /\ tcp_enqueued = <<>>
    /\ \E packet \in {buildGSRegistration(BaseEndpoint[1], BaseEndpoint[2])} :
          /\ tcp_send_spans' = Append(tcp_send_spans, packet)
          /\ tcp_enqueued' = tcp_enqueued \o packet
    /\ tcp_steps' = tcp_steps + 1
    /\ UNCHANGED <<tcp_recv_spans, game_instances, tcp_wire, udpvars, gwvars>>

\* GameServer::_recvTcpPackets followed by GameServer::_parseTcpPackets
RecvTcpPackets(bytes) ==
    /\ tcp_steps < MaxTcpSteps
    /\ Len(tcp_recv_spans) + Len(bytes) <= MAX_BUFFER_SIZE
    /\ \E R \in {parseTcpPackets([Tcp EXCEPT !.recv_spans = @ \o bytes])} :
          /\ tcp_recv_spans' = R.recv_spans
          /\ tcp_send_spans' = R.send_spans
          /\ game_instances' = R.game_instances
          /\ tcp_enqueued' = tcp_enqueued
                \o Flatten(SubSeq(R.send_spans, Len(tcp_send_spans) + 1, Len(R.send_spans)))
    /\ tcp_steps' = tcp_steps + 1
    /\ UNCHANGED <<tcp_wire, udpvars, gwvars>>

\* GameServer::_sendTcpPackets with buffers queued
SendTcpPackets(k, o) ==
    /\ tcp_steps < MaxTcpSteps
    /\ tcp_send_spans # <<>>
    /\ \E R \in {sendTcpPackets(tcp_send_spans, k, o)} :
          /\ tcp_send_spans' = R.bufs
          /\ tcp_wire' = tcp_wire \o R.wire
    /\ tcp_steps' = tcp_steps + 1
    /\ UNCHANGED <<tcp_recv_spans, game_instances, tcp_enqueued, udpvars, gwvars>>

NextTcp ==
    \/ SendGSRegistration
    \/ \E bytes \in TcpChunks : RecvTcpPackets(bytes)
    \/ \E k \in SendCounts, o \in SendOutcomes : SendTcpPackets(k, o)

SpecTcp == Init /\ [][NextTcp]_vars

(***************************************************************************)
(* Lemma: every frame the peers of this model send is whole, so no pass    *)
(* reads past a buffer and the result of a delivery does not depend on the *)
(* byte an out-of-bounds read would yield.                                 *)
(***************************************************************************)
Frames(handle) ==
    IF handle \in GSHandles
    THEN {buildGSRegistration(k[1], k[2]) : k \in Keys}
            \cup {buildOccupancy(o) : o \in OccValues}
            \cup {buildGIDRegistration(<<g>>) : g \in GameIds}
            \cup {buildGameEnd(g) : g \in GameIds}
            \cup {buildJoinResponse(g, ExternalEndpoint(handle)[1], ExternalEndpoint(handle)[2])
                  : g \in GameIds}
    ELSE {ClientJoin(g) : g \in GameIds} \cup {ClientCreate(t) : t \in GameTypes}

OobImmaterial ==
    \A h \in Handles \ closed : \A f \in Frames(h) : \A nd \in Inputs :
        Deliver(Gw, h, f, nd) = Deliver(Gw, h, f, [nd EXCEPT !.oob = 0])

(***************************************************************************)
(* Vocabulary of the claims.                                               *)
(***************************************************************************)
\* the JOIN response Game Server handle h sends for game g
ReplyOf(h, g) == buildJoinResponse(g, ExternalEndpoint(h)[1], ExternalEndpoint(h)[2])

IsJoin27(frame) == Len(frame) = 27 /\ SubSeq(frame, 1, 5) = <<66, 87, 1, 0, CMD_JOIN>>

IsCreateKO(frame) == frame = <<66, 87, 1, 0, CMD_CREATE_KO>>

\* the number of CREATE responses in the send queue of client c
Responses(c) ==
    Cardinality({i \in DOMAIN send_spans[c] :
                    IsJoin27(send_spans[c][i]) \/ IsCreateKO(send_spans[c][i])})

AllBuffersEmpty == \A x \in Handles : recv_spans[x] = <<>>

(***************************************************************************)
(* C1: for every CREATE the gateway forwarded to a Game Server, the JOIN   *)
(* reply the Game Server sends for that CREATE is relayed to the client    *)
(* that originated it, also when CREATEs of several clients are            *)
(* outstanding on the same GS handle.  Stated on every reachable state     *)
(* whose buffers are empty: when GS handle h answers the oldest CREATE     *)
(* outstanding on its stream, the send queue of the client that sent that  *)
(* CREATE gains the reply.                                                 *)
(***************************************************************************)
C1_ReplyRelayedToOriginator ==
    \A h \in GSHandles \ closed : \A g \in GameIds : \A nd \in Inputs :
        (outstanding[h] # <<>> /\ AllBuffersEmpty) =>
            LET c == Head(outstanding[h])
            IN  Deliver(Gw, h, ReplyOf(h, g), nd).G.send_spans[c]
                    = Append(send_spans[c], ReplyOf(h, g))

(***************************************************************************)
(* C2: every accepted client CREATE causes exactly one response frame (a   *)
(* 27-byte JOIN or a CREATE_KO) for the client that sent it, provided the  *)
(* Game Server answers every CREATE it receives.  Stated as: once every    *)
(* forwarded CREATE has been answered by its Game Server and the gateway   *)
(* holds no pending-create entry (so no relay can follow), each client     *)
(* has as many responses in its queue as CREATEs it had accepted.          *)
(***************************************************************************)
C2_OneResponsePerCreate ==
    (pending_creates = <<>> /\ \A h \in Handles : outstanding[h] = <<>>) =>
        \A c \in ClientHandles : Responses(c) = creates[c]

\* the frames of the claims, and the offset getHeader hands to a handler
\* (the index of the CMD byte of a frame that starts the buffer)
GSFrame(key) == buildGSRegistration(key[1], key[2])

CmdOffset == getHeader(<<66, 87, 1, 0, 0>>, 0).offset

GS_OK == <<66, 87, 1, 0, CMD_GS_OK>>

GS_KO == <<66, 87, 1, 0, CMD_GS_KO>>

(***************************************************************************)
(* C3: a registration frame for a key that is not registered is answered   *)
(* with GS_OK and binds the key to the sender's handle; a registration     *)
(* frame for a key bound to another handle is answered with GS_KO and      *)
(* leaves the key bound to the handle that registered it first.            *)
(***************************************************************************)
C3_RegistrationFirstWins ==
    \A h \in Handles : \A k \in Keys : \A nd \in Inputs :
        LET r == handleGSRegistration(Gw, h, GSFrame(k), CmdOffset, nd)
        IN  /\ k \notin Range(gs_registry) =>
                /\ ~r.threw
                /\ r.G.send_spans[h] = Append(send_spans[h], GS_OK)
                /\ k \in Range(r.G.gs_registry)
                /\ r.G.gs_addr_to_handle[k] = h
            /\ (k \in Range(gs_registry) /\ gs_addr_to_handle[k] # h) =>
                /\ ~r.threw
                /\ r.G.send_spans[h] = Append(send_spans[h], GS_KO)
                /\ k \in Range(r.G.gs_registry)
                /\ r.G.gs_addr_to_handle[k] = gs_addr_to_handle[k]

\* handle 1 registered a key and got GS_OK, handle 2 then sent the same key
\* and got GS_KO, and the key is still bound to handle 1
C3_Witness ==
    \E k \in Keys :
        /\ k \in DOMAIN gs_addr_to_handle /\ gs_addr_to_handle[k] = 1
        /\ gs_registry = <<k>>
        /\ send_spans[1] = <<GS_OK>>
        /\ send_spans[2] = <<GS_KO>>

(***************************************************************************)
(* C4 (as written): a registration frame for an already registered key is  *)
(* answered with GS_KO only when the sender's handle differs from the      *)
(* handle bound to the key; from the same handle the answer is GS_OK and   *)
(* the key's occupancy is set to zero.                                     *)
(***************************************************************************)
C4_SameHandleReRegisters ==
    \A h \in Handles : \A k \in Keys : \A nd \in Inputs :
        (k \in Range(gs_registry) /\ gs_addr_to_handle[k] = h) =>
            LET r == handleGSRegistration(Gw, h, GSFrame(k), CmdOffset, nd)
            IN  /\ r.G.send_spans[h] = Append(send_spans[h], GS_OK)
                /\ k \in DOMAIN r.G.occupancy_cache
                /\ r.G.occupancy_cache[k] = 0

(***************************************************************************)
(* C4 (amended): a registration frame for an already registered key is     *)
(* answered with GS_KO whichever handle sends it, the bound handle         *)
(* included, and changes nothing else: the registry, the key's binding and *)
(* the recorded occupancies stay as they were.                             *)
(***************************************************************************)
C4_DuplicateAlwaysKO ==
    \A h \in Handles : \A k \in Keys : \A nd \in Inputs :
        k \in Range(gs_registry) =>
            LET r == handleGSRegistration(Gw, h, GSFrame(k), CmdOffset, nd)
            IN  /\ ~r.threw
                /\ r.G = [Gw EXCEPT !.send_spans[h] = Append(@, GS_KO)]

\* handle 1 registered a key, reported occupancy 2 and registered the same
\* key again: it got GS_OK then GS_KO and the occupancy is still 2
C4_Witness ==
    \E k \in Keys :
        /\ gs_registry = <<k>> /\ gs_addr_to_handle[k] = 1
        /\ send_spans[1] = <<GS_OK, GS_KO>>
        /\ k \in DOMAIN occupancy_cache /\ occupancy_cache[k] = 2

CREATE_KO == <<66, 87, 1, 0, CMD_CREATE_KO>>

JOIN_KO == <<66, 87, 1, 0, CMD_JOIN_KO>>

\* the 6-byte CREATE the gateway forwards
CreateFrame(t) == <<66, 87, 1, 0, CMD_CREATE, t>>

\* game type bytes a client may put in a CREATE
TypeBytes == {RTYPE, 200}

\* the keys bound to handle h
SenderKeys(h) == {k \in DOMAIN gs_addr_to_handle : gs_addr_to_handle[k] = h}

(***************************************************************************)
(* C5 (as written, the tie rule): when several registered Game Servers tie *)
(* for the minimal occupancy, the CREATE goes to the one that registered   *)
(* first.  Stated on every reachable state with exactly one registered key *)
(* whose occupancy is 0: after a second key registers (occupancy 0 too),   *)
(* a CREATE is forwarded to the handle of the key that was there first.    *)
(***************************************************************************)
C5_TieGoesToFirstRegistered ==
    \A h2 \in GSHandles : \A k2 \in Keys : \A c \in ClientHandles : \A nd \in WholeFrameInputs :
        (Len(gs_registry) = 1 /\ k2 \notin Range(gs_registry)
            /\ OccupancyOf(Gw, gs_registry[1]) = 0) =>
            LET first == gs_addr_to_handle[gs_registry[1]]
                G1 == handleGSRegistration(Gw, h2, GSFrame(k2), CmdOffset, nd).G
                r == handleCreate(G1, c, ClientCreate(RTYPE), CmdOffset, nd)
            IN  r.G.send_spans[first] = Append(G1.send_spans[first], CreateFrame(RTYPE))

(***************************************************************************)
(* C5 (amended): the Game Server chosen for a CREATE is a registered one   *)
(* whose last recorded occupancy (0 before its first OCCUPANCY frame) is   *)
(* minimal over all registered ones; among those that tie it is the first  *)
(* in the iteration order of the registry, and the CREATE is forwarded to  *)
(* the handle bound to it.                                                 *)
(***************************************************************************)
C5_LeastOccupiedFirstInOrder ==
    gs_registry # <<>> =>
        LET k == findLeastOccupiedGS(Gw)
            occ(x) == IF x \in DOMAIN occupancy_cache THEN occupancy_cache[x] ELSE 0
        IN  /\ k \in Range(gs_registry)
            /\ \A j \in DOMAIN gs_registry : occ(k) <= occ(gs_registry[j])
            /\ \A j \in DOMAIN gs_registry :
                    occ(gs_registry[j]) = occ(k) =>
                        (CHOOSE i \in DOMAIN gs_registry : gs_registry[i] = k) <= j
            /\ \A c \in ClientHandles : \A nd \in WholeFrameInputs :
                    LET r == handleCreate(Gw, c, ClientCreate(RTYPE), CmdOffset, nd)
                        gs == gs_addr_to_handle[k]
                    IN  r.G.send_spans[gs] = Append(send_spans[gs], CreateFrame(RTYPE))

\* two servers are registered, the first in iteration order reported
\* occupancy 2, and a CREATE of client 3 went to the other one
C5_Witness ==
    /\ Len(gs_registry) = 2
    /\ gs_addr_to_handle[gs_registry[1]] = 1 /\ gs_addr_to_handle[gs_registry[2]] = 2
    /\ gs_registry[1] \in DOMAIN occupancy_cache /\ occupancy_cache[gs_registry[1]] = 2
    /\ gs_registry[2] \notin DOMAIN occupancy_cache
    /\ send_spans[2] = <<GS_OK, CreateFrame(RTYPE)>>
    /\ 2 \in DOMAIN pending_creates /\ pending_creates[2] = <<3, RTYPE>>

(***************************************************************************)
(* C6: on a client CREATE, if no Game Server is registered exactly one     *)
(* CREATE_KO is enqueued for the client and nothing else changes (no       *)
(* pending entry, no forwarded frame); otherwise exactly one 6-byte CREATE *)
(* with the requested game type is enqueued for the picked GS, the pending *)
(* entry of that GS handle becomes (client, game type), replacing any      *)
(* prior entry, and nothing is enqueued for the client.                    *)
(***************************************************************************)
C6_CreateForwardOrKO ==
    \A c \in ClientHandles : \A t \in TypeBytes : \A nd \in WholeFrameInputs :
        LET r == handleCreate(Gw, c, ClientCreate(t), CmdOffset, nd)
        IN  /\ ~r.threw
            /\ gs_registry = <<>> =>
                    r.G = [Gw EXCEPT !.send_spans[c] = Append(@, CREATE_KO)]
            /\ gs_registry # <<>> =>
                    LET gs == gs_addr_to_handle[findLeastOccupiedGS(Gw)]
                    IN  /\ gs # c
                        /\ r.G = [Gw EXCEPT !.send_spans[gs] = Append(@, CreateFrame(t)),
                                            !.pending_creates = Put(@, gs, <<c, t>>)]

\* client 3 got CREATE_KO while nothing was registered; after handle 1
\* registered, the CREATEs of 3 and then 4 were both forwarded to it and
\* the pending entry of handle 1 names client 4
C6_Witness ==
    /\ send_spans[3] = <<CREATE_KO>>
    /\ send_spans[4] = <<>>
    /\ send_spans[1] = <<GS_OK, CreateFrame(RTYPE), CreateFrame(RTYPE)>>
    /\ 1 \in DOMAIN pending_creates /\ pending_creates[1] = <<4, RTYPE>>
    /\ creates[3] = 2 /\ creates[4] = 1

JoinAnswer(g, key) == <<66, 87, 1, 0, CMD_JOIN>> \o U32Bytes(g) \o key[1] \o U16Bytes(key[2])

(***************************************************************************)
(* C8: a client JOIN for a routed Game ID g is answered with one 27-byte   *)
(* JOIN whose body is g (4 bytes), then the IP (16) and the port (2) of    *)
(* the Game Server g is routed to; a client JOIN for a Game ID without     *)
(* routing entry is answered with the 5-byte JOIN_KO; nothing else         *)
(* changes, the routing table in particular.                               *)
(***************************************************************************)
C8_JoinAnswer ==
    \A c \in ClientHandles : \A g \in GameIds : \A nd \in WholeFrameInputs :
        LET r == handleJoin(Gw, c, ClientJoin(g), CmdOffset, nd)
        IN  /\ ~r.threw
            /\ g \in DOMAIN game_to_gs =>
                    r.G = [Gw EXCEPT !.send_spans[c] = Append(@, JoinAnswer(g, game_to_gs[g]))]
            /\ g \notin DOMAIN game_to_gs =>
                    r.G = [Gw EXCEPT !.send_spans[c] = Append(@, JOIN_KO)]

GSOnlyFrames ==
    {buildOccupancy(o) : o \in OccValues}
        \cup {buildGIDRegistration(<<g>>) : g \in GameIds}
        \cup {buildGameEnd(g) : g \in GameIds}

(***************************************************************************)
(* C12: an OCCUPANCY, GID or GAME_END frame sent by a handle that is bound *)
(* to no registered GS key is an error: its handler throws, the sender is  *)
(* charged one parse error (and closed when that reaches the quota), and   *)
(* the registry, the key->handle map, the occupancy cache, the routing     *)
(* table and the pending-create table stay as they were.                   *)
(***************************************************************************)
C12_UnregisteredSenderRejected ==
    \A h \in Handles \ closed : \A f \in GSOnlyFrames : \A nd \in WholeFrameInputs :
        SenderKeys(h) = {} =>
            /\ \E r \in {Dispatch(f[5], Gw, h, f, CmdOffset, nd)} :
                    r.threw /\ r.G = Gw
            /\ AllBuffersEmpty =>
                \E R \in {Deliver(Gw, h, f, nd).G} :
                    /\ R.gs_registry = gs_registry
                    /\ R.gs_addr_to_handle = gs_addr_to_handle
                    /\ R.occupancy_cache = occupancy_cache
                    /\ R.game_to_gs = game_to_gs
                    /\ R.pending_creates = pending_creates
                    /\ IF parseErrors[h] + 1 >= MAX_PARSE_ERRORS
                       THEN h \in R.closed
                       ELSE h \notin R.closed /\ R.parseErrors[h] = parseErrors[h] + 1

\* handle 1 is registered and handle 2 is not; handle 2 has sent a GID
\* frame for game 66: it carries one parse error and 66 is not routed
C12_Witness ==
    /\ SenderKeys(1) # {} /\ SenderKeys(2) = {} /\ 2 \notin closed
    /\ parseErrors[2] = 1
    /\ recv_spans[2] = <<CMD_GID, 1, 0, 0, 0, 66>>
    /\ 66 \notin DOMAIN game_to_gs

(***************************************************************************)
(* C13: in every step and for every connected stream peer, the parse-error *)
(* counter of a peer that stays connected does not decrease (a pass adds   *)
(* at most one) and stays below the quota MAX_PARSE_ERRORS, so that no     *)
(* counter ever exceeds 3; and a peer is closed exactly by the pass in     *)
(* which its counter, standing at quota - 1, takes one more error.         *)
(***************************************************************************)
C13_ErrorCountMonotoneBounded ==
    [][\A h \in Handles \ closed :
            /\ parseErrors'[h] <= MAX_PARSE_ERRORS
            /\ h \notin closed' =>
                    /\ parseErrors'[h] \in {parseErrors[h], parseErrors[h] + 1}
                    /\ parseErrors'[h] < MAX_PARSE_ERRORS
            /\ h \in closed' => parseErrors[h] = MAX_PARSE_ERRORS - 1]_vars

\* handle 2 was closed by the quota while handle 1, registered, is still
\* connected
C13_Witness ==
    /\ 2 \in closed /\ 1 \notin closed
    /\ SenderKeys(1) # {}
    /\ recv_spans[2] = <<>>

\* the proper prefixes of a frame header: 1 to 4 of its 5 bytes
PartialHeaders == {SubSeq(buildHeader(CMD_JOIN, 0), 1, n) : n \in 1..CmdOffset}

(***************************************************************************)
(* C14: when a pass parses a peer's buffer that holds fewer than 5 bytes   *)
(* at the start of a frame (a partial header), the peer's parse-error      *)
(* counter is not incremented and the bytes stay in the buffer unchanged.  *)
(* Stated on every reachable state with empty buffers: after a connected   *)
(* peer delivers 1 to 4 header bytes, its counter is what it was, it is    *)
(* still connected and its buffer holds exactly those bytes.               *)
(***************************************************************************)
C14_PartialHeaderNotCounted ==
    \A h \in Handles \ closed : \A p \in PartialHeaders : \A nd \in WholeFrameInputs :
        AllBuffersEmpty =>
            \E R \in {Deliver(Gw, h, p, nd).G} :
                /\ R.parseErrors[h] = parseErrors[h]
                /\ h \notin R.closed
                /\ R.recv_spans[h] = p

\* the commands that require an authenticated peer, and the datagrams a
\* peer may send with them
AuthOnlyCmds == {GSCMD_INPUT, GSCMD_PONG, GSCMD_RESYNC, GSCMD_ACK, GSCMD_CHAT, GSCMD_FRAGMENT}

AuthOnlyDgrams(ep) ==
    {InputDgram(ClientIdOf(ep))} \cup {BareDgram(cmd, ClientIdOf(ep)) : cmd \in AuthOnlyCmds}

(***************************************************************************)
(* C15: a datagram whose command is not JOIN, AUTH or PING (INPUT, PONG,   *)
(* RESYNC, ACK, CHAT, FRAGMENT) changes state only if the sending peer is  *)
(* Authenticated; from any other peer it is dropped: no table of the       *)
(* server changes and nothing is queued for sending.                       *)
(***************************************************************************)
C15_AuthenticatedOnly ==
    \A ep \in Peers : \A pkt \in AuthOnlyDgrams(ep) :
        ~IsAuthenticated(Gs, ep) => ParseDatagram(Gs, ep, pkt, gs_now, 0) = Gs

\* the auth state of endpoint ep in the table cs (None when it has no entry)
AuthStateIn(cs, ep) == IF ep \in DOMAIN cs THEN cs[ep].authState ELSE NONE

(***************************************************************************)
(* C16: a peer's auth state only moves None -> Challenged (on JOIN) and    *)
(* Challenged -> Authenticated (on a valid AUTH), or back to None when the *)
(* session is removed; in particular no step takes an Authenticated peer   *)
(* to Challenged, whatever datagram it sends, a further JOIN included.     *)
(***************************************************************************)
C16_AuthStateMoves ==
    [][\A ep \in Peers :
            \/ AuthStateIn(client_states', ep) = AuthStateIn(client_states, ep)
            \/ AuthStateIn(client_states, ep) = NONE
                    /\ AuthStateIn(client_states', ep) = CHALLENGED
            \/ AuthStateIn(client_states, ep) = CHALLENGED
                    /\ AuthStateIn(client_states', ep) = AUTHENTICATED
            \/ AuthStateIn(client_states', ep) = NONE]_vars

\* the cookies an AUTH may carry: computed with the shared secret or with
\* another key, for either nonce, for timestamps on both sides of the window
CandidateCookies(ep) ==
    {hmacSHA256(k, MacData(PeerIP(ep), n, t))
        : k \in {SharedSecret, GuessedSecret}, n \in Nonces,
          t \in (gs_now - AUTH_TIMEOUT - 2)..(gs_now + 1)}

\* the AUTH left the peer authenticated and an AUTH_OK queued for it
Accepted(S, R, ep) ==
    /\ ep \in DOMAIN R.client_states
    /\ R.client_states[ep].authState = AUTHENTICATED
    /\ Len(R.send_spans[ep]) = Len(S.send_spans[ep]) + 1
    /\ R.send_spans[ep][Len(R.send_spans[ep])].cmd = GSCMD_AUTH_OK

\* C17: an AUTH from a peer in state Challenged is accepted if and only if
\* its cookie equals HMAC(shared secret, peer IP, the AUTH's nonce, t) for
\* some whole-second t with now - 5 <= t <= now; a cookie issued at T is
\* therefore dropped from T + 6 on
C17_CookieWindow ==
    \A ep \in Senders :
        AuthStateIn(client_states, ep) = CHALLENGED =>
            \A n \in Nonces, cookie \in CandidateCookies(ep) :
                \E R \in {ParseDatagram(Gs, ep, AuthDgram(ClientIdOf(ep), n, cookie), gs_now, 0)} :
                    Accepted(Gs, R, ep)
                        <=> \E t \in (gs_now - AUTH_TIMEOUT)..gs_now :
                                cookie = hmacSHA256(SharedSecret, MacData(PeerIP(ep), n, t))

\* a peer was authenticated with the cookie of a challenge issued exactly
\* AUTH_TIMEOUT seconds before
C17_Witness ==
    /\ AuthStateIn(client_states, 1) = AUTHENTICATED
    /\ client_states[1].sessionKey[1].data = TsBytes(gs_now - AUTH_TIMEOUT)
    /\ \E i \in DOMAIN gs_send_spans[1] : gs_send_spans[1][i].cmd = GSCMD_AUTH_OK

\* how many AUTH_OK packets are queued for ep
AuthOkCount(spans, ep) ==
    Cardinality({i \in DOMAIN spans[ep] : spans[ep][i].cmd = GSCMD_AUTH_OK})

\* C18: at most 3 AUTH attempts of one peer are evaluated within a timeout
\* window: after 3 failed AUTH datagrams a further AUTH of the peer does not
\* authenticate it, even with a valid cookie and even in the same receive
\* batch as the third failure
C18_AttemptLimit ==
    \A ep \in Senders :
        AuthStateIn(client_states, ep) = CHALLENGED =>
            \A cookie \in KnownCookies(ep) :
                \E R \in {udpParsePackets(Gs, ep, AuthBurst(ep, cookie), gs_now, 0)} :
                    /\ AuthOkCount(R.send_spans, ep) = AuthOkCount(gs_send_spans, ep)
                    /\ AuthStateIn(R.client_states, ep) # AUTHENTICATED

\* the second at which ep's latest JOIN was answered: the timestamp of the
\* last CHALLENGE queued for it
ChallengeIndexes(ep) ==
    {i \in DOMAIN gs_send_spans[ep] : gs_send_spans[ep][i].cmd = GSCMD_CHALLENGE}

JoinTime(ep) ==
    LET last == CHOOSE i \in ChallengeIndexes(ep) : \A j \in ChallengeIndexes(ep) : j <= i
    IN  CHOOSE t \in 0..MaxTime : TsBytes(t) = SubSeq(gs_send_spans[ep][last].payload, 1, 8)

\* C19: a session that has been Challenged for longer than AUTH_TIMEOUT
\* since its JOIN is removed at the next sweep, whatever number of failed
\* AUTH attempts it made in the meantime
C19_ChallengedReaped ==
    \A ep \in Senders :
        (/\ AuthStateIn(client_states, ep) = CHALLENGED
         /\ ChallengeIndexes(ep) # {}
         /\ gs_now - JoinTime(ep) > AUTH_TIMEOUT)
            => \E R \in {udpParsePackets(Gs, ep, <<>>, gs_now, 0)} :
                    AuthStateIn(R.client_states, ep) = NONE

\* C20: after a successful AUTH the stored session key is the full 32-octet
\* HKDF-SHA256 output derived from the shared secret with the 8-byte
\* timestamp that reproduced the cookie as salt, and the AUTH_OK carries the
\* ClientID followed by the first 8 octets of that key
C20_FullSessionKey ==
    \A ep \in Senders :
        AuthStateIn(client_states, ep) = CHALLENGED =>
            \A t \in (gs_now - AUTH_TIMEOUT)..gs_now, fill \in GarbageFills :
                \E R \in {ParseDatagram(Gs, ep,
                                        AuthDgram(ClientIdOf(ep), 17,
                                                  hmacSHA256(SharedSecret, MacData(PeerIP(ep), 17, t))),
                                        gs_now, fill)} :
                    Accepted(Gs, R, ep) =>
                        /\ R.client_states[ep].sessionKey = deriveKey(SharedSecret, TsBytes(t))
                        /\ R.send_spans[ep][Len(R.send_spans[ep])].payload
                              = U32Bytes(ClientIdOf(ep))
                                    \o SubSeq(deriveKey(SharedSecret, TsBytes(t)), 1, 8)

\* the octets the server computed with the built-in secret: in a cookie it
\* sent, or in a session key it stored
KeyedWithBuiltin(octets) ==
    \E i \in DOMAIN octets : octets[i].src \in {"hmac", "hkdf"} /\ octets[i].key = BUILTIN_SECRET

\* C21: without R_TYPE_SHARED_SECRET the server fails at startup: it serves
\* no peer, and no cookie or session key is ever computed with a built-in
\* fallback secret
C21_NoFallbackSecret ==
    /\ env_secret = ENV_UNSET =>
            /\ DOMAIN client_states = {}
            /\ \A ep \in Peers : gs_send_spans[ep] = <<>>
    /\ \A ep \in Peers :
            \A i \in DOMAIN gs_send_spans[ep] :
                gs_send_spans[ep][i].cmd = GSCMD_CHALLENGE
                    => ~KeyedWithBuiltin(SubSeq(gs_send_spans[ep][i].payload, 9, 8 + DIGEST_SIZE))
    /\ \A h \in DOMAIN client_states : ~KeyedWithBuiltin(client_states[h].sessionKey)

\* well-formed datagrams a peer may send, and the three ways the header of
\* one can be wrong
SampleDgrams(ep) ==
    {JoinDgram(ClientIdOf(ep), 17), BareDgram(GSCMD_PING, ClientIdOf(ep)),
     BareDgram(GSCMD_PONG, ClientIdOf(ep)), InputDgram(ClientIdOf(ep))}
        \cup {AuthDgram(ClientIdOf(ep), 17, c) : c \in KnownCookies(ep)}

BadMagic(d) == [d EXCEPT !.magic = GSPCOL_MAGIC + 1]

BadVersion(d) == [d EXCEPT !.version = UDP_VERSION + 1]

BadSize(d) == [d EXCEPT !.size = d.len + 1]

\* C22: a datagram whose magic is not 0x4254, whose version is not 1 or
\* whose header size field differs from its length reaches no handler: it
\* is dropped without changing any session state
C22_HeaderChecked ==
    \A ep \in Senders, fill \in GarbageFills :
        \A d \in SampleDgrams(ep) :
            \A bad \in {BadMagic(d), BadVersion(d), BadSize(d)} :
                ParseDatagram(Gs, ep, bad, gs_now, fill) = Gs

\* C23: every outbound datagram of a peer carries the sequence number one
\* greater than the previous datagram enqueued for that peer, so that no
\* sequence number is used twice for a peer, also across a repeated JOIN
C23_SequenceStrictlyIncreasing ==
    \A ep \in Peers :
        \A i \in DOMAIN gs_send_spans[ep] :
            i > 1 => gs_send_spans[ep][i].seq = gs_send_spans[ep][i - 1].seq + 1

\* an INPUT of ep with header sequence s
InputSeq(ep, s) == [InputDgram(ClientIdOf(ep)) EXCEPT !.seq = s]

\* ep may send INPUT: its endpoint is bound and its handle authenticated
InputAccepted(ep) ==
    /\ endpoint_to_handle[ep] # 0
    /\ IsAuthenticated(Gs, endpoint_to_handle[ep])

\* the ackbase of the datagram enqueued last for ep
LastAckBase(S, ep) == S.send_spans[ep][Len(S.send_spans[ep])].ackBase

\* C24: after an INPUT with header sequence s is accepted in order, the
\* next outbound datagram to the peer carries ackbase = s, and an INPUT
\* with an older sequence arriving afterwards does not lower ackbase
C24_AckBaseHighestInOrder ==
    \A ep \in Senders :
        InputAccepted(ep) =>
            \A s \in {last_received_seq[ep] + 1} :
                /\ \E R \in {ParseBatch(Gs, ep, <<InputSeq(ep, s), BareDgram(GSCMD_PING, ClientIdOf(ep))>>,
                                        1, gs_now, 0)} :
                        LastAckBase(R, ep) = s
                /\ \E R \in {ParseBatch(Gs, ep, <<InputSeq(ep, s), InputSeq(ep, s - 1),
                                                  BareDgram(GSCMD_PING, ClientIdOf(ep))>>,
                                        1, gs_now, 0)} :
                        LastAckBase(R, ep) = s

Bit(v, k) == (v \div (2 ^ k)) % 2 = 1

\* the datagram enqueued last for ep
LastSent(S, ep) == S.send_spans[ep][Len(S.send_spans[ep])]

\* sequence numbers a peer sends with one missing in between
GappedSeqs == <<1001, 1003, 1004, 1005>>

\* C25: in an outbound datagram, bit k of ackbits (k in 0..7) is set if and
\* only if the server has received sequence number ackbase - 8 + k from the
\* peer; a sequence number of the window that never arrived has its bit clear
C25_AckBitsMatchReceived ==
    \A ep \in Senders :
        (InputAccepted(ep) /\ sack_bits[ep] = 0 /\ last_received_seq[ep] = 0) =>
            \E R \in {ParseBatch(Gs, ep,
                                 [i \in 1..Len(GappedSeqs) |-> InputSeq(ep, GappedSeqs[i])]
                                    \o <<BareDgram(GSCMD_PING, ClientIdOf(ep))>>,
                                 1, gs_now, 0)} :
                \A k \in 0..7 :
                    Bit(LastSent(R, ep).ackBits, k)
                        <=> (LastSent(R, ep).ackBase - 8 + k) \in Range(GappedSeqs)

\* a datagram sent on a reliable channel
Reliable(d) == d.channel \in {CHANNEL_RU, CHANNEL_RO}

Holds(q, d) == \E j \in DOMAIN q : q[j] = d

\* C26: a datagram sent on a reliable channel is kept for retransmission
\* until the peer acknowledges it or the session is closed: in a step in
\* which the server makes its first send attempt (when nothing the peer
\* sent can acknowledge it yet) it is not forgotten
C26_ReliableKeptUntilAcked ==
    [][\A ep \in Peers :
            gs_pollout /\ ~gs_pollout' =>
                \A i \in DOMAIN gs_send_spans[ep] :
                    (Reliable(gs_send_spans[ep][i]) /\ ep \in DOMAIN client_states')
                        => Holds(gs_send_spans'[ep], gs_send_spans[ep][i])]_vars

IsPrefix(p, q) == Len(p) <= Len(q) /\ SubSeq(q, 1, Len(p)) = p

\* C30: the datagrams queued for a peer are handed to the kernel in FIFO
\* order and leave the queue only when the kernel accepted them (one that
\* would block stays queued), and the writable-interest bit is cleared
\* only when every send queue is empty
C30_FifoUntilAccepted ==
    [][/\ \A ep \in Peers :
            \E n \in 0..Len(gs_send_spans[ep]) :
                /\ gs_wire'[ep] = gs_wire[ep] \o SubSeq(gs_send_spans[ep], 1, n)
                /\ IsPrefix(SubSeq(gs_send_spans[ep], n + 1, Len(gs_send_spans[ep])),
                            gs_send_spans'[ep])
       /\ (gs_pollout /\ ~gs_pollout') => \A ep \in Peers : gs_send_spans'[ep] = <<>>]_vars

\* the frames a step of the broadcaster added to the queue of ep
NewFrames(S, R, ep) == SubSeq(R.send_spans[ep], Len(S.send_spans[ep]) + 1, Len(R.send_spans[ep]))

FragBody(f) == SubSeq(f.payload, 13, Len(f.payload))

RECURSIVE ConcatBodies(_, _)
ConcatBodies(frames, i) ==
    IF i > Len(frames) THEN <<>> ELSE FragBody(frames[i]) \o ConcatBodies(frames, i + 1)

\* the distance between the offsets of two fragments
FragmentStride == MAX_PAYLOAD_SIZE - 12

\* a client that is in game g, has joined and whose endpoint ep is bound
Reachable(ep, g) ==
    /\ ClientIdOf(ep) \in DOMAIN client_to_game
    /\ client_to_game[ClientIdOf(ep)] = g
    /\ ClientIdOf(ep) \in DOMAIN client_ids
    /\ endpoint_to_handle[ep] = client_ids[ClientIdOf(ep)]

\* C27: a snapshot too large for one datagram is enqueued as FRAGMENT
\* frames on channel RO with the FRAGMENT flag, all with one base sequence,
\* at offsets 0, 1167, 2334, ..., with a declared total equal to the sum of
\* the body lengths, whose bodies concatenated give the payload
C27_FragmentsCoverSnapshot ==
    \A ep \in Peers, g \in GameInstances :
        Reachable(ep, g) =>
            \E R \in {send_game_snapshots(Gs, client_to_game, g, LargeSnapshot)} :
                \E frames \in {NewFrames(Gs, R, ep)} :
                    /\ frames # <<>>
                    /\ \A k \in DOMAIN frames :
                            /\ frames[k].cmd = GSCMD_FRAGMENT
                            /\ frames[k].channel = CHANNEL_RO
                            /\ Bit(frames[k].flags, 2)
                            /\ SubSeq(frames[k].payload, 1, 4) = SubSeq(frames[1].payload, 1, 4)
                            /\ SubSeq(frames[k].payload, 5, 8) = U32Bytes(Len(ConcatBodies(frames, 1)))
                            /\ SubSeq(frames[k].payload, 9, 12) = U32Bytes((k - 1) * FragmentStride)
                    /\ ConcatBodies(frames, 1) = StateData(LargeSnapshot)

\* C28: every datagram the packet builders produce (PING, PONG, CHALLENGE,
\* AUTH_OK, SNAPSHOT, FRAGMENT), for every input they accept, is at most
\* 1200 octets long and carries a size field equal to its actual length
C28_BuiltPacketsFit ==
    \A i \in DOMAIN build_out :
        /\ HEADER_SIZE + Len(build_out[i].payload) <= MAX_PACKET_SIZE
        /\ build_out[i].size = HEADER_SIZE + Len(build_out[i].payload)

\* buildSnapshot was given state data too large for one packet and returned
\* a packet
C28_Witness ==
    /\ build_in.builder = "snapshot"
    /\ build_in.n = LargeSnapshot
    /\ build_out # <<>>

\* C29: a SNAPSHOT produced for a game is enqueued for every client bound
\* to that game and Authenticated, and for no other client
C29_SnapshotAudience ==
    \A g \in GameInstances :
        \E R \in {send_game_snapshots(Gs, client_to_game, g, 4)} :
            \A ep \in Peers :
                NewFrames(Gs, R, ep) # <<>>
                    <=> /\ ClientIdOf(ep) \in DOMAIN client_to_game
                        /\ client_to_game[ClientIdOf(ep)] = g
                        /\ AuthStateIn(client_states, ep) = AUTHENTICATED

(***************************************************************************)
(* C31.  PING is answered with one PONG.  In every reachable state of the  *)
(* Game Server, a PING datagram from any peer, with any ClientID in its    *)
(* header, adds to the queue of that same peer exactly one packet: a PONG  *)
(* on channel UU with the ClientID of the PING and the peer's outbound     *)
(* sequence counter, which is then advanced by one; no other queue         *)
(* changes.  Two PINGs received in one pass get two PONGs with consecutive *)
(* sequence numbers.                                                       *)
(***************************************************************************)
PingClientIds == {7, 9, 70000}

PongsIn(frames) == {i \in DOMAIN frames : frames[i].cmd = GSCMD_PONG}

C31_PingAnsweredByOnePong ==
    \A ep \in Peers, id \in PingClientIds :
        /\ \E R \in {ParseDatagram(Gs, ep, BareDgram(GSCMD_PING, id), gs_now, 0)} :
              /\ Len(NewFrames(Gs, R, ep)) = 1
              /\ SubSeq(R.send_spans[ep], 1, Len(gs_send_spans[ep])) = gs_send_spans[ep]
              /\ \A other \in Peers \ {ep} : R.send_spans[other] = gs_send_spans[other]
              /\ \E pong \in {NewFrames(Gs, R, ep)[1]} :
                    /\ pong.cmd = GSCMD_PONG
                    /\ pong.channel = CHANNEL_UU
                    /\ pong.clientId = id
                    /\ pong.seq = client_sequence_nums[ep]
                    /\ pong.size = HEADER_SIZE /\ pong.payload = <<>>
              /\ R.client_sequence_nums[ep] = client_sequence_nums[ep] + 1
        /\ \E R \in {udpParsePackets(Gs, ep, <<BareDgram(GSCMD_PING, id),
                                               BareDgram(GSCMD_PING, id)>>, gs_now, 0)} :
              \E new \in {NewFrames(Gs, R, ep)} :
                 /\ Cardinality(PongsIn(new)) = 2
                 /\ \A i, j \in PongsIn(new) : i < j => new[j].seq = new[i].seq + 1

\* the peer sent PING after its JOIN: the PONG carries sequence number 1
C31_Witness ==
    \E i \in DOMAIN gs_send_spans[1] :
        /\ gs_send_spans[1][i].cmd = GSCMD_PONG
        /\ gs_send_spans[1][i].seq = 1
        /\ gs_send_spans[1][i].clientId = ClientIdOf(1)

(***************************************************************************)
(* C32.  CREATE_KO from a Game Server.  In every reachable state in which  *)
(* GS handle h has a pending-create entry naming client c and the buffer   *)
(* of h is empty, the 5-byte CREATE_KO frame received from h makes the     *)
(* gateway append CREATE_KO to the queue of c and remove the entry of h,   *)
(* so that the next 27-byte JOIN reply of h is not relayed to c.           *)
(***************************************************************************)
C32_CreateKORelayedAndCleared ==
    \A h \in (DOMAIN pending_creates) \ closed : \A nd \in WholeFrameInputs :
        recv_spans[h] = <<>> =>
            \E c \in {pending_creates[h][1]} :
            \E R \in {Deliver(Gw, h, CREATE_KO, nd).G} :
               /\ R.send_spans[c] = Append(send_spans[c], CREATE_KO)
               /\ h \notin DOMAIN R.pending_creates
               /\ \A g \in GameIds :
                     \E R2 \in {Deliver(R, h, ReplyOf(h, g), nd).G} :
                        R2.send_spans[c] = R.send_spans[c]

(***************************************************************************)
(* C33.  The count of an OCCUPANCY frame.  In every reachable state of the *)
(* Game Server's stream whose receive buffer is empty, the server answers  *)
(* the gateway's occupancy request with one OCCUPANCY frame whose count    *)
(* byte is the number of games running on the server; in particular the    *)
(* count is at least 1 once a CREATE has made the server start a game.     *)
(***************************************************************************)
C33_OccupancyCountsGames ==
    tcp_recv_spans = <<>> =>
        \E R \in {parseTcpPackets([Tcp EXCEPT !.recv_spans = buildHeader(CMD_OCCUPANCY, 0)])} :
           /\ Len(R.send_spans) = Len(tcp_send_spans) + 1
           /\ R.send_spans[Len(R.send_spans)] = buildOccupancy(Cardinality(game_instances))
           /\ (game_instances # {} => R.send_spans[Len(R.send_spans)][6] >= 1)

(***************************************************************************)
(* C34.  A frame split over two reads.  In every reachable gateway state,  *)
(* for a connected peer with an empty buffer, every frame f the peer can   *)
(* send, and every cut inside the body (the 5-byte header and at least one *)
(* body byte before it): after the first read the peer's buffer holds all  *)
(* bytes read and no frame was handled; after the second read the tables   *)
(* and the queues are what they are when f arrives in one read, and the    *)
(* buffer is empty.                                                        *)
(***************************************************************************)
Tables(G) == [G EXCEPT !.parseErrors = [h \in Handles |-> 0]]

C34_SplitFrameDecodedOnce ==
    \A h \in Handles \ closed : \A f \in Frames(h) : \A nd \in Inputs :
        \A cut \in 6..(Len(f) - 1) :
            recv_spans[h] = <<>> =>
                \E D1 \in {Deliver(Gw, h, SubSeq(f, 1, cut), nd)} :
                   /\ D1.G.recv_spans[h] = SubSeq(f, 1, cut)
                   /\ D1.log = <<>>
                   /\ Tables(Deliver(D1.G, h, SubSeq(f, cut + 1, Len(f)), nd).G)
                         = Tables(Deliver(Gw, h, f, nd).G)

(***************************************************************************)
(* C35.  The 27-byte reply of a Game Server.  In every reachable gateway   *)
(* state in which GS handle h is connected, has an empty buffer and a      *)
(* pending-create entry, handling the JOIN reply of h moves the read       *)
(* offset past all 27 bytes of the frame and does not depend on a byte     *)
(* outside the buffer; when an OCCUPANCY frame follows the reply in the    *)
(* same read, the pass leaves the buffer empty and the parse-error counter *)
(* of h as it was, and the OCCUPANCY frame is handled.                     *)
(***************************************************************************)
C35_ReplyConsumedWhole ==
    \A h \in (DOMAIN pending_creates) \ closed : \A g \in GameIds : \A nd \in Inputs :
        recv_spans[h] = <<>> =>
            /\ \E r \in {handleJoin(Gw, h, ReplyOf(h, g), CmdOffset, nd)} :
                  /\ ~r.threw
                  /\ r.offset = Len(ReplyOf(h, g))
                  /\ r = handleJoin(Gw, h, ReplyOf(h, g), CmdOffset, [nd EXCEPT !.oob = 0])
            /\ \E D \in {Deliver(Gw, h, ReplyOf(h, g) \o buildOccupancy(2), nd)} :
                  /\ D.G.recv_spans[h] = <<>>
                  /\ D.G.parseErrors[h] = parseErrors[h]
                  /\ Len(D.log) = 2

(***************************************************************************)
(* C38.  The binding of keys to handles is one-to-one.  In every reachable *)
(* gateway state every registered key is bound to a handle and no handle   *)
(* is bound to two different keys, so that the key found from a sender's   *)
(* handle is the only key of that sender.                                  *)
(***************************************************************************)
C38_KeyBindingOneToOne ==
    /\ \A k \in Range(gs_registry) : k \in DOMAIN gs_addr_to_handle
    /\ \A k1, k2 \in DOMAIN gs_addr_to_handle :
          gs_addr_to_handle[k1] = gs_addr_to_handle[k2] => k1 = k2
    /\ \A h \in Handles : SenderKeys(h) \subseteq {findGSKeyByHandle(Gw, h)}

(***************************************************************************)
(* C36.  The last-ping timestamp belongs to the server's own PINGs.  In    *)
(* every reachable state of the Game Server a PING received from a peer    *)
(* leaves the latency metrics of every peer as they were, the last-ping    *)
(* timestamp in particular, so that the sample a following PONG records is *)
(* the time since the server's last PING to that peer.                     *)
(***************************************************************************)
C36_PeerPingKeepsLastPing ==
    \A ep \in Peers :
        \E R \in {ParseDatagram(Gs, ep, BareDgram(GSCMD_PING, ClientIdOf(ep)), gs_now, 0)} :
           /\ R.latency_metrics = latency_metrics
           /\ \E R2 \in {ParseDatagram(R, ep, BareDgram(GSCMD_PONG, ClientIdOf(ep)), gs_now, 0)} :
                 R2.latency_metrics
                    = ParseDatagram(Gs, ep, BareDgram(GSCMD_PONG, ClientIdOf(ep)),
                                    gs_now, 0).latency_metrics

(***************************************************************************)
(* C37.  The sweep spares authenticated sessions.  In every reachable      *)
(* state of the Game Server, a peer that is Authenticated is still         *)
(* Authenticated, with the same session state, after the sweep of the      *)
(* auth challenges has run at the current time or at any later time.       *)
(***************************************************************************)
SweepTimes == gs_now..(MaxTime + 2 * AUTH_TIMEOUT)

C37_SweepSparesAuthenticated ==
    \A ep \in Peers :
        IsAuthenticated(Gs, ep) =>
            \A later \in SweepTimes :
                \E R \in {cleanupExpiredAuthChallenges(Gs, later)} :
                   /\ IsAuthenticated(R, ep)
                   /\ R.client_states[ep] = client_states[ep]

(***************************************************************************)
(* C39.  The stream to the gateway is sent in order.  In every reachable   *)
(* state of the Game Server's stream, after any sequence of complete,      *)
(* partial and failed send calls, the bytes the kernel accepted followed   *)
(* by the bytes still queued are exactly the bytes of all queued frames in *)
(* the order they were queued: the accepted bytes are a prefix of that     *)
(* concatenation, nothing is sent twice, skipped or reordered, and what    *)
(* was queued behind a partially sent frame follows its remainder.         *)
(***************************************************************************)
C39_StreamSentInOrder ==
    /\ IsPrefix(tcp_wire, tcp_enqueued)
    /\ tcp_wire \o Flatten(tcp_send_spans) = tcp_enqueued
    /\ \A k \in SendCounts, o \in SendOutcomes :
          \E R \in {sendTcpPackets(tcp_send_spans, k, o)} :
             /\ IsPrefix(tcp_wire \o R.wire, tcp_enqueued)
             /\ tcp_wire \o R.wire \o Flatten(R.bufs) = tcp_enqueued

\* 7 of the 23 bytes of the registration were accepted, and an OCCUPANCY
\* frame is queued behind the 16 bytes that remain
C39_Witness ==
    \E reg \in {buildGSRegistration(BaseEndpoint[1], BaseEndpoint[2])} :
        /\ tcp_wire = SubSeq(reg, 1, 7)
        /\ tcp_send_spans = <<SubSeq(reg, 8, Len(reg)), buildOccupancy(0)>>

(***************************************************************************)
(* C40.  The stream parsing loops terminate.  For the gateway, in every    *)
(* reachable state, and for the Game Server, whose loop does not read its  *)
(* tables: for every buffer content of the sample below and every offset   *)
(* inside the buffer, one iteration of the loop either leaves the loop     *)
(* (an exception) or ends at a larger offset; the loop run from offset 0   *)
(* therefore ends after at most as many iterations as the buffer has       *)
(* bytes, at an offset that is not beyond the end of the buffer, and the   *)
(* bytes erased afterwards are the bytes up to that offset or none.        *)
(***************************************************************************)
\* buffer contents: whole frames of every command, frames cut short, a GID
\* frame announcing more ids than it carries, unknown commands, bad magic
\* and version, and each of them behind a whole frame
ParsePieces ==
    {ClientJoin(66), ClientCreate(RTYPE), buildGameEnd(66), buildOccupancy(2),
     buildGSRegistration(KeyA[1], KeyA[2]), buildGIDRegistration(<<66>>),
     buildJoinResponse(66, KeyA[1], KeyA[2]), buildHeader(CMD_CREATE_KO, 0),
     buildHeader(CMD_GS_OK, 0), buildHeader(99, 0), buildHeader(CMD_CREATE, 0),
     <<66, 87, 1, 0, CMD_GID, 255, 0, 0, 0, 66>>, <<66, 87, 1, 0>>, <<66, 87, 9, 0, 1>>,
     <<0>>, <<66>>}

ParseLeads == {<<>>, buildOccupancy(0), buildHeader(99, 0)}

ParseBuffers == {lead \o piece : lead \in ParseLeads, piece \in ParsePieces}

\* one iteration of the loop of Gateway::_parsePackets
ParseStep(G, handle, buf, offset, nd) ==
    LET hd == getHeader(buf, offset)
    IN  IF hd.threw THEN Throw(G, hd.offset) ELSE Dispatch(hd.cmd, G, handle, buf, hd.offset, nd)

Progress(r, offset) == r.threw \/ r.offset > offset

\* the Game Server's loop: its handlers read the buffer only
TcpEmpty == [recv_spans |-> <<>>, send_spans |-> <<>>, game_instances |-> {}]

C40_TcpLoopEnds ==
    \A buf \in ParseBuffers :
        /\ \A offset \in 0..(Len(buf) - 1) : Progress(ParseTcpStep(TcpEmpty, buf, offset), offset)
        /\ \E r \in {ParseTcpBuffer(TcpEmpty, buf, 0, <<>>)} :
              /\ Len(r.trace) <= Len(buf)
              /\ r.offset <= Len(buf)
              /\ \E after \in {parseTcpPackets([TcpEmpty EXCEPT !.recv_spans = buf]).recv_spans} :
                    after = SubSeq(buf, r.offset + 1, Len(buf))

====
